---- MODULE Spec2Model ----
(***************************************************************************)
(* Model of the workflow coordinators of src/workflows:                    *)
(*   AgentChain      (chaining.py)  sequential chain with retry/backoff    *)
(*   ParallelAgents  (parallel.py)  bounded-concurrency fan-out            *)
(* A text is a sequence of string tokens, so that concatenation and        *)
(* template substitution are computed (<<>> is the empty string).          *)
(* A Python dict is a record; a key that a dict does not hold has the      *)
(* value Missing.                                                          *)
(***************************************************************************)
EXTENDS Integers, Sequences, FiniteSets, TLC

\* ------------------------------------------------------------------ bounds
\* Longest agent list of a chain.
MaxSteps == 2
\* Largest max_retries under SpecRetry (one-step chains).
MaxRetries == 3
\* Longest agent list of a ParallelAgents.
MaxAgents == 3
\* Largest max_concurrent of a ParallelAgents.
MaxConcurrent == 2
\* Longest agent list of an AgentRouter.
MaxRouterAgents == 3
\* Most requests one AgentRouter serves under SpecStats.
MaxCalls == 3
\* Longest metric list of an AgentEvaluator.
MaxMetrics == 2
\* Most custom evaluators of an AgentEvaluator.
MaxEvaluators == 2
\* Most route calls in progress at once on one AgentRouter.
MaxOverlap == 2
\* Most calls of evaluate_with_llm made on one AgentEvaluator.
MaxJudgeCalls == 2

\* ------------------------------------------------------------------ values
\* The value of an absent dict key (and the text of an absent field).
Missing == <<"<missing>">>

\* str(e) of the failures a request attempt can end with (network error,
\* non-success status, malformed response).
CallErrors == {<<"e1">>, <<"e2">>}

\* str(e) of the AttributeError raised by result.get when _execute_agent
\* returned None.
NoneResultError == <<"'NoneType' object has no attribute 'get'">>

\* str(e) of the exception a caller-supplied output_extractor raises.
ExtractorError == <<"extractor failed">>

\* str(KeyError(k)) raised by str.format for a slot the context lacks.
KeyErrorText(k) == <<"KeyError", k>>

\* The bodies response.json() can return: with "content" alone, with
\* "content" and a "summary" field, and with neither.
Responses ==
    { [content |-> <<"o1">>, summary |-> Missing],
      [content |-> <<"o2">>, summary |-> <<"s2">>],
      [content |-> Missing, summary |-> Missing] }

\* Values a caller-supplied output_extractor can return.
ExtractorReturns == {<<"x1">>}

\* agent_config.get("name", f"step_{idx}") for the agent at index idx.
StepName(idx) == <<"step_0", "step_1", "step_2", "step_3", "step_4", "step_5">>[idx + 1]

\* Input templates: no template, or a sequence of pieces, each a literal,
\* the {input} slot or a {key} slot filled from the context.
NoTemplate == <<>>
Templates ==
    { NoTemplate,
      << [lit |-> "Based on: "], [slot |-> "input"] >>,
      << [slot |-> "lang"], [lit |-> " task: "], [slot |-> "input"] >> }

\* output_extractor of an agent config: absent, a key name, or a callable.
Extractors == {"none", "summary", "callable"}

AgentConfigs == [input_template : Templates, output_extractor : Extractors]

\* The context argument of execute: None/empty, or one holding "lang".
EmptyContext == [k \in {} |-> Missing]
InitialContexts == {EmptyContext, [k \in {"lang"} |-> <<"python">>]}

InitialInputs == {<<"in">>}

\* ------------------------------------------------------------------ state
VARIABLES
    ch_cfg,          \* ChainConfig: n (len(agents)), max_retries, pass_full_context, stop_on_error
    ch_pc,           \* "idle" | "loop" | "post" | "sleep" | "returned"
    ch_idx,          \* idx of the for loop of execute
    ch_agent,        \* agent_config of the step in progress
    ch_input,        \* current_input
    ch_agent_input,  \* agent_input of the step in progress
    ch_context,      \* full_context
    ch_results,      \* chain_results
    ch_attempt,      \* attempt of the retry loop of _execute_agent
    ch_call,         \* the _execute_agent call of the step: whether made, requests posted, their errors, delays slept, the result returned
    ch_ret           \* the dict execute returned

chainVars == << ch_cfg, ch_pc, ch_idx, ch_agent, ch_input, ch_agent_input,
                ch_context, ch_results, ch_attempt, ch_call, ch_ret >>

VARIABLES
    par_cfg,         \* ParallelConfig: n (len(agents)), max_concurrent, fail_fast, aggregation, scorer
    par_pc,          \* execute: "idle" | "waiting" (at its await) | "returned"
    par_sem,         \* the value of the semaphore of execute (semaphore._value)
    par_waiters,     \* the agent indices of the tasks waiting in acquire, in arrival order
    par_woken,       \* the waiting tasks release handed a slot, not yet resumed
    par_task,        \* per agent index, its task: "queued" (at the gate) | "inflight" | "done"
    par_outcome,     \* per agent index, what its _execute_agent returned
    par_order,       \* the agent indices in completion order
    par_ret          \* the dict execute returned

parVars == << par_cfg, par_pc, par_sem, par_waiters, par_woken, par_task, par_outcome,
             par_order, par_ret >>

VARIABLES
    rt_cfg,          \* RouterConfig: agents (name, routing_rules), strategy, default_agent, enable_fallback
    rt_env,          \* the caller: how many requests it makes, with which inputs and contexts
    rt_left,         \* the requests the caller has still to make
    rt_stats,        \* self.performance_stats
    rt_pc,           \* route: "idle" | "primary" | "fallback" (at the await of a request) | "returned"
    rt_input,        \* input_text
    rt_context,      \* context
    rt_selected,     \* selected_agent, as its position in config.agents
    rt_candidates,   \* candidates of _adaptive_selection
    rt_base,         \* performance_stats when route was called
    rt_attempts,     \* the requests route has made: the agent and the error raised, if any
    rt_fallback,     \* the fallback_agents still to try, the one in turn first
    rt_error,        \* the exception e of the primary agent
    rt_ret,          \* the dict route returned
    rt_held          \* a caller holds the dict get_stats returned

routerVars == << rt_cfg, rt_env, rt_left, rt_stats, rt_pc, rt_input, rt_context, rt_selected,
                 rt_candidates, rt_base, rt_attempts, rt_fallback, rt_error, rt_ret, rt_held >>

VARIABLES
    ev_cfg,          \* EvaluatorConfig: metrics, threshold, use_llm_judge, custom_evaluators (how many)
    ev_pc,           \* evaluate: "idle" | "loop" | "returned" | "raised"
    ev_output,       \* output
    ev_expected,     \* expected
    ev_scores,       \* scores
    ev_idx,          \* the place in config.metrics of the metric in turn
    ev_evaluator,    \* the place in config.custom_evaluators of the evaluator in turn
    ev_raised,       \* the custom evaluators whose last call raised
    ev_error,        \* str(e) of the exception evaluate raised
    ev_ret,          \* the dict evaluate returned
    ev_judged        \* per call of evaluate_with_llm, in call order: awaiting the judge, or the score returned

evalVars == << ev_cfg, ev_pc, ev_output, ev_expected, ev_scores, ev_idx, ev_evaluator,
               ev_raised, ev_error, ev_ret, ev_judged >>

VARIABLES
    ov_calls         \* per route call in progress on the router of rt_cfg: its locals and its position

overlapVars == << ov_calls >>

vars == << chainVars, parVars, routerVars, evalVars, overlapVars >>

\* ------------------------------------------------------------------ parallel helpers
\* agent_config.get("name", "unnamed") of the agent at index i.
AgentName(i) == <<"a0", "a1", "a2", "a3", "a4", "a5">>[i + 1]

\* The contents a successful response can carry; Len is the length of the string.
Outputs == {<<"A">>, <<"B", "B">>}

\* duration of a successful call of agent i, in seconds: a different one per agent.
Durations(i) == {i + 1}

\* str(e) of a failed call of ParallelAgents._execute_agent.
ParErrors == {<<"e1">>}

AggregationStrategies == {"first", "all", "best", "vote", "merge"}

\* config.scorer: None, or one of two scoring functions of an output.
Scorers == {"none", "length", "prefers_A"}
Score(scorer, output) ==
    IF scorer = "length" THEN Len(output) ELSE IF output = <<"A">> THEN 2 ELSE 1

\* The dict _execute_agent returns for a response.
SuccessOutcome(i, output, duration) ==
    [kind |-> "dict", agent |-> AgentName(i), success |-> TRUE,
     output |-> output, error |-> Missing, duration |-> duration]

\* The dict _execute_agent returns from its except branch.
FailureOutcome(i, err) ==
    [kind |-> "dict", agent |-> AgentName(i), success |-> FALSE,
     output |-> Missing, error |-> err, duration |-> 0]

\* Everything ParallelAgents._execute_agent can return for agent i.
AgentOutcomes(i) ==
    { SuccessOutcome(i, o, d) : o \in Outputs, d \in Durations(i) }
      \cup { FailureOutcome(i, e) : e \in ParErrors }

NoOutcome == [kind |-> "none"]

\* isinstance(result, Exception)
IsException(result) == result.kind = "exception"

\* semaphore.locked(): no slot is free, or a task waits in acquire already.
Locked(sem, waiters) == sem = 0 \/ waiters # <<>>

\* Mutant of CanAcquire: the gate admits a task whatever the semaphore holds.
CanAcquire_NoGate(sem, waiters) == TRUE

\* acquire admits an arriving task without waiting.
CanAcquire(sem, waiters) == ~ Locked(sem, waiters)

\* The task of agent i waits in acquire.
Waits(waiters, i) == \E k \in DOMAIN waiters : waiters[k] = i

\* The waiters without the task of agent i.
Without(waiters, i) == SelectSeq(waiters, LAMBDA w : w # i)

\* _wake_up_next of the semaphore: the first waiting task not yet handed a
\* slot gets one, the value going down by one again; nothing when no task
\* waits for one.
WakeUpNext(sem, waiters, woken) ==
    LET pending == { k \in DOMAIN waiters : waiters[k] \notin woken } IN
    IF pending = {}
    THEN [value |-> sem, woken |-> woken]
    ELSE LET first == CHOOSE k \in pending : \A m \in pending : k <= m
         IN  [value |-> sem - 1, woken |-> woken \cup {waiters[first]}]

InFlight == { i \in DOMAIN par_task : par_task[i] = "inflight" }

\* Mutant of Release: the slot of a completed call is not given back.
Release_Leak(sem, waiters, woken) == [value |-> sem, woken |-> woken]

\* Leaving `async with semaphore`, by return or by exception alike: the
\* value goes up by one and the slot is handed to the first task waiting.
Release(sem, waiters, woken) == WakeUpNext(sem + 1, waiters, woken)

\* asyncio.gather(*tasks, return_exceptions=True) has every result.
GatherDone(task) == \A i \in DOMAIN task : task[i] = "done"

\* Mutant of GatherResults: the results in completion order.
GatherResults_CompletionOrder(n, outcome) == [k \in 1..n |-> outcome[par_order[k]]]

\* The list gather returns: one result per task, in task order.
GatherResults(n, outcome) == [k \in 1..n |-> outcome[k - 1]]

\* ParallelAgents._execute_fail_fast over the results in completion order:
\* the first that is not an exception, alone in a list.
RECURSIVE ExecuteFailFast(_, _)
ExecuteFailFast(order, outcome) ==
    IF order = <<>> THEN <<>>
    ELSE IF ~ IsException(outcome[Head(order)]) THEN << outcome[Head(order)] >>
    ELSE ExecuteFailFast(Tail(order), outcome)

\* _execute_fail_fast returning only when every task is done.
FailFastDone_AwaitAll(task, order, outcome) == GatherDone(task)

\* _execute_fail_fast can return: a result arrived that ends its loop, or
\* every task is done.
FailFastDone(task, order, outcome) ==
    \/ \E k \in DOMAIN order : ~ IsException(outcome[order[k]])
    \/ GatherDone(task)

\* Mutant of ProcessResults: failed outcomes are filtered out.
ProcessResults_DropFailed(results) == SelectSeq(results, LAMBDA r : r.kind = "dict" /\ r.success)

\* ParallelAgents._process_results
RECURSIVE ProcessResults(_)
ProcessResults(results) ==
    IF results = <<>> THEN <<>>
    ELSE (IF IsException(Head(results))
          THEN << [kind |-> "dict", success |-> FALSE, error |-> Head(results).error] >>
          ELSE IF Head(results).kind = "dict" THEN << Head(results) >>
          ELSE <<>>) \o ProcessResults(Tail(results))

\* [r for r in results if r.get("success")]
Successful(results) == SelectSeq(results, LAMBDA r : r.success)

RECURSIVE SumDurations(_)
SumDurations(results) ==
    IF results = <<>> THEN 0 ELSE Head(results).duration + SumDurations(Tail(results))

\* max() keeping the last of the greatest keys.
FirstMaxIndex_Last(keys) ==
    CHOOSE i \in DOMAIN keys :
        /\ \A j \in DOMAIN keys : keys[j] <= keys[i]
        /\ \A j \in (i + 1)..Len(keys) : keys[j] < keys[i]

\* max(seq, key=...) over the keys of a sequence: the index of the first
\* element with the largest key.
FirstMaxIndex(keys) ==
    CHOOSE i \in DOMAIN keys :
        /\ \A j \in DOMAIN keys : keys[j] <= keys[i]
        /\ \A j \in 1..(i - 1) : keys[j] < keys[i]

\* Counter(outputs)[output]
Votes(successful, output) ==
    Cardinality({ i \in DOMAIN successful : successful[i].output = output })

\* "\n\n---\n\n".join(f"Agent: {r['agent']}\n{r['output']}" for r in successful)
RECURSIVE Merge(_)
Merge(successful) ==
    IF successful = <<>> THEN <<>>
    ELSE << "Agent: ", Head(successful).agent, "\n" >> \o Head(successful).output
           \o (IF Tail(successful) = <<>> THEN <<>> ELSE << "\n\n---\n\n" >>)
           \o Merge(Tail(successful))

\* The value None of _aggregate_results.
None == [kind |-> "None"]

\* ParallelAgents._aggregate_results
AggregateResults(results, aggregation, scorer) ==
    LET successful == Successful(results) IN
    IF successful = <<>> THEN None
    ELSE IF aggregation = "first" THEN [kind |-> "first", output |-> successful[1].output]
    ELSE IF aggregation = "all"
         THEN [kind |-> "all",
               outputs |-> [k \in DOMAIN successful |-> successful[k].output],
               agents |-> [k \in DOMAIN successful |-> successful[k].agent],
               count |-> Len(successful),
               total_duration |-> SumDurations(successful)]
    ELSE IF aggregation = "best"
         THEN IF scorer # "none"
              THEN LET best == successful[FirstMaxIndex(
                                    [k \in DOMAIN successful |-> Score(scorer, successful[k].output)])]
                   IN  [kind |-> "best_scored", output |-> best.output, agent |-> best.agent,
                        score |-> Score(scorer, best.output)]
              ELSE [kind |-> "best",
                    output |-> successful[FirstMaxIndex(
                                  [k \in DOMAIN successful |-> Len(successful[k].output)])].output]
    ELSE IF aggregation = "vote"
         THEN LET winner == successful[FirstMaxIndex(
                                      [k \in DOMAIN successful |-> Votes(successful, successful[k].output)])]
              IN  [kind |-> "vote", output |-> winner.output,
                   votes |-> Votes(successful, winner.output), total |-> Len(successful)]
    ELSE [kind |-> "merge", output |-> Merge(successful)]

\* The dict of execute with success read off the result list being non-empty.
ParallelReturn_SuccessNonEmpty(results, cfg) ==
    LET processed == ProcessResults(results)
        aggregated == AggregateResults(processed, cfg.aggregation, cfg.scorer)
    IN  [success |-> processed # <<>>, strategy |-> cfg.aggregation,
         results |-> processed, aggregated |-> aggregated]

\* The dict execute returns for the results of gather or _execute_fail_fast.
ParallelReturn(results, cfg) ==
    LET processed == ProcessResults(results)
        aggregated == AggregateResults(processed, cfg.aggregation, cfg.scorer)
    IN  [success |-> aggregated # None, strategy |-> cfg.aggregation,
         results |-> processed, aggregated |-> aggregated]

\* ------------------------------------------------------------------ parallel actions
\* execute is called: the semaphore and one task per agent are created, and
\* execute waits at gather or in _execute_fail_fast.
ParExecute ==
    /\ par_pc = "idle"
    /\ par_pc' = "waiting"
    /\ par_sem' = par_cfg.max_concurrent
    /\ par_waiters' = <<>>
    /\ par_woken' = {}
    /\ par_task' = [i \in 0..(par_cfg.n - 1) |-> "queued"]
    /\ par_outcome' = [i \in 0..(par_cfg.n - 1) |-> NoOutcome]
    /\ par_order' = <<>>
    /\ UNCHANGED << par_cfg, par_ret >>

\* The task of agent i can run its first step: gather starts its tasks in
\* the order of the agents, as_completed in the order of a set of them.
MayStart(i) ==
    \/ par_cfg.fail_fast
    \/ \A j \in 0..(i - 1) : par_task[j] # "queued" \/ Waits(par_waiters, j)

\* A task passes `async with semaphore` and makes its request: on arrival,
\* when the semaphore is not locked, taking a slot off its value; or resumed
\* from acquire with the slot release handed it, leaving the waiters and
\* passing a slot still free to the next of them.
ParAdmit ==
    /\ \E i \in DOMAIN par_task :
         /\ par_task[i] = "queued"
         /\ \/ /\ ~ Waits(par_waiters, i)
               /\ MayStart(i)
               /\ CanAcquire(par_sem, par_waiters)
               /\ par_sem' = par_sem - 1
               /\ UNCHANGED << par_waiters, par_woken >>
            \/ /\ i \in par_woken
               /\ LET rest == Without(par_waiters, i)
                      next == IF par_sem > 0
                              THEN WakeUpNext(par_sem, rest, par_woken \ {i})
                              ELSE [value |-> par_sem, woken |-> par_woken \ {i}]
                  IN  /\ par_sem' = next.value
                      /\ par_waiters' = rest
                      /\ par_woken' = next.woken
         /\ par_task' = [par_task EXCEPT ![i] = "inflight"]
    /\ UNCHANGED << par_cfg, par_pc, par_outcome, par_order, par_ret >>

\* A task arrives at `async with semaphore` and finds it locked: it joins
\* the waiters of acquire.
ParWait ==
    /\ \E i \in DOMAIN par_task :
         /\ par_task[i] = "queued"
         /\ ~ Waits(par_waiters, i)
         /\ MayStart(i)
         /\ Locked(par_sem, par_waiters)
         /\ par_waiters' = Append(par_waiters, i)
    /\ UNCHANGED << par_cfg, par_pc, par_sem, par_woken, par_task, par_outcome, par_order,
                    par_ret >>

\* _execute_agent of a task returns (a response, or its except branch) and
\* the task leaves `async with semaphore`.
ParComplete ==
    /\ \E i \in DOMAIN par_task :
         /\ par_task[i] = "inflight"
         /\ \E outcome \in AgentOutcomes(i) :
              par_outcome' = [par_outcome EXCEPT ![i] = outcome]
         /\ par_task' = [par_task EXCEPT ![i] = "done"]
         /\ par_order' = Append(par_order, i)
    /\ LET released == Release(par_sem, par_waiters, par_woken)
       IN  /\ par_sem' = released.value
           /\ par_woken' = released.woken
    /\ UNCHANGED << par_cfg, par_pc, par_waiters, par_ret >>

\* execute resumes from its await and returns.
ParReturn ==
    /\ par_pc = "waiting"
    /\ IF par_cfg.fail_fast
       THEN /\ FailFastDone(par_task, par_order, par_outcome)
            /\ par_ret' = ParallelReturn(ExecuteFailFast(par_order, par_outcome), par_cfg)
       ELSE /\ GatherDone(par_task)
            /\ par_ret' = ParallelReturn(GatherResults(par_cfg.n, par_outcome), par_cfg)
    /\ par_pc' = "returned"
    /\ UNCHANGED << par_cfg, par_sem, par_waiters, par_woken, par_task, par_outcome, par_order >>

\* The scorer is read by the BEST strategy alone.
ParallelConfigs ==
    { c \in [n : 0..MaxAgents, max_concurrent : 0..MaxConcurrent, fail_fast : BOOLEAN,
             aggregation : AggregationStrategies, scorer : Scorers] :
        c.aggregation # "best" => c.scorer = "none" }

NoParallelReturn == [success |-> FALSE, strategy |-> "none", results |-> <<>>, aggregated |-> None]

ParInit(configs) ==
    /\ par_cfg \in configs
    /\ par_pc = "idle"
    /\ par_sem = 0
    /\ par_waiters = <<>>
    /\ par_woken = {}
    /\ par_task = <<>>
    /\ par_outcome = <<>>
    /\ par_order = <<>>
    /\ par_ret = NoParallelReturn

\* No ParallelAgents takes part.
ParIdle == ParInit({[n |-> 0, max_concurrent |-> 0, fail_fast |-> FALSE,
                     aggregation |-> "all", scorer |-> "none"]})

NextPar ==
    \/ ParExecute /\ UNCHANGED << chainVars, routerVars, evalVars, overlapVars >>
    \/ ParAdmit /\ UNCHANGED << chainVars, routerVars, evalVars, overlapVars >>
    \/ ParWait /\ UNCHANGED << chainVars, routerVars, evalVars, overlapVars >>
    \/ ParComplete /\ UNCHANGED << chainVars, routerVars, evalVars, overlapVars >>
    \/ ParReturn /\ UNCHANGED << chainVars, routerVars, evalVars, overlapVars >>

\* ------------------------------------------------------------------ chain helpers
\* dict[k] = v on a dict modelled as a function.
Put(d, k, v) == [x \in (DOMAIN d) \cup {k} |-> IF x = k THEN v ELSE d[x]]

\* The text one piece of a template formats to.
PieceText(piece, current_input, context) ==
    IF "lit" \in DOMAIN piece THEN << piece.lit >>
    ELSE IF piece.slot = "input" THEN current_input
    ELSE context[piece.slot]

RECURSIVE FormatFrom(_, _, _, _)
FormatFrom(template, i, current_input, context) ==
    IF i > Len(template) THEN <<>>
    ELSE PieceText(template[i], current_input, context)
           \o FormatFrom(template, i + 1, current_input, context)

\* template.format(input=current_input, **context): ok, or the KeyError of
\* the first slot the context lacks.
Format(template, current_input, context) ==
    LET missing == { i \in DOMAIN template :
                       /\ "slot" \in DOMAIN template[i]
                       /\ template[i].slot # "input"
                       /\ template[i].slot \notin DOMAIN context }
    IN  IF missing # {}
        THEN [ok |-> FALSE,
              error |-> KeyErrorText(template[CHOOSE i \in missing : \A j \in missing : i <= j].slot)]
        ELSE [ok |-> TRUE, text |-> FormatFrom(template, 1, current_input, context)]

\* Mutant of PrepareInput: the raw input, whatever the template.
PrepareInput_Raw(current_input, context, agent_config) ==
    [ok |-> TRUE, text |-> current_input]

\* AgentChain._prepare_input
PrepareInput(current_input, context, agent_config) ==
    IF agent_config.input_template # NoTemplate
    THEN Format(agent_config.input_template, current_input, context)
    ELSE [ok |-> TRUE, text |-> current_input]

\* result.get("content", "") of execute
OutputOf(result) == IF result.content = Missing THEN <<>> ELSE result.content

\* str(result), the default of result.get("content", str(result))
StrOfResult(result) == <<"str(result)">> \o result.summary

\* Mutant of ExtractNextInput: the content first, whatever the extractor.
ExtractNextInput_ContentFirst(result, agent_config) ==
    IF result.content # Missing THEN result.content
    ELSE IF agent_config.output_extractor = "summary" /\ result.summary # Missing
         THEN result.summary
    ELSE StrOfResult(result)

\* AgentChain._extract_next_input for an extractor that is not a callable.
ExtractNextInput(result, agent_config) ==
    IF agent_config.output_extractor = "summary"
    THEN IF result.summary # Missing THEN result.summary
         ELSE IF result.content # Missing THEN result.content ELSE <<>>
    ELSE IF result.content # Missing THEN result.content ELSE StrOfResult(result)

\* The step_result dict of a successful step.
StepResult(idx, agent_input, result) ==
    [step |-> idx, name |-> StepName(idx), input |-> agent_input,
     output |-> OutputOf(result), error |-> Missing]

\* The error_result dict of a failed step.
ErrorResult(idx, err) ==
    [step |-> idx, name |-> StepName(idx), input |-> Missing,
     output |-> Missing, error |-> err]

\* "error" in r
HasError(r) == r.error # Missing

\* Mutant of PreviousStepFailed: the reason alone.
PreviousStepFailed_ReasonOnly(err) == err

\* The synthetic input after a failed step.
PreviousStepFailed(err) == <<"Previous step failed: ">> \o err

\* Mutant of FinalOutput: the output of the last entry that has one.
RECURSIVE FinalOutput_LastSuccessful(_)
FinalOutput_LastSuccessful(results) ==
    IF results = <<>> THEN <<>>
    ELSE IF results[Len(results)].output # Missing THEN results[Len(results)].output
    ELSE FinalOutput_LastSuccessful(SubSeq(results, 1, Len(results) - 1))

\* chain_results[-1].get("output", "") if chain_results else ""
FinalOutput(results) ==
    IF results = <<>> THEN <<>>
    ELSE IF results[Len(results)].output = Missing THEN <<>>
    ELSE results[Len(results)].output

\* Mutant of ChainReturn: success read off the last entry alone.
ChainReturn_SuccessOfLast(results, context) ==
    [success |-> results = <<>> \/ results[Len(results)].error = Missing,
     steps |-> results,
     final_output |-> FinalOutput(results),
     context |-> context]

\* The dict execute returns.
ChainReturn(results, context) ==
    [success |-> ~ \E i \in DOMAIN results : HasError(results[i]),
     steps |-> results,
     final_output |-> FinalOutput(results),
     context |-> context]

\* The backoff delay after failed attempt number attempt.
Backoff(attempt) == 2 ^ attempt

\* Mutant of Reraise: the exception of the first attempt is raised.
Reraise_First(errors) == errors[1]

\* The bare `raise` of the retry loop: the exception of the attempt that just
\* failed, the last of the errors of the call so far.
Reraise(errors) == errors[Len(errors)]

\* Mutant of LastAttempt: one more attempt before giving up.
LastAttempt_OneMore(attempt, max_retries) == attempt = max_retries

\* True when attempt was the last one of the retry loop.
LastAttempt(attempt, max_retries) == attempt = max_retries - 1

\* _execute_agent has not returned a result.
NoResult == [none |-> TRUE]

\* Mutant of NoAttempts: an attempt is made unless max_retries is negative.
NoAttempts_Negative(max_retries) == max_retries < 0

\* range(max_retries) is empty: the retry loop of _execute_agent has no
\* iteration and the method returns None.
NoAttempts(max_retries) == max_retries <= 0

\* No call of _execute_agent made yet for the step.
NoCall == [called |-> FALSE, errors |-> <<>>, sleeps |-> <<>>, posts |-> 0, result |-> NoResult]

\* ------------------------------------------------------------------ chain actions
\* The loop moves on after step ch_idx: to the next step, or out of the loop
\* (exhausted, or break) where execute builds its return value.
ChainAdvance(results, context, next_input, stop) ==
    /\ ch_results' = results
    /\ ch_context' = context
    /\ ch_input' = next_input
    /\ ch_attempt' = 0
    /\ IF stop \/ ch_idx + 1 >= ch_cfg.n
       THEN /\ ch_pc' = "returned"
            /\ ch_idx' = ch_idx
            /\ ch_ret' = ChainReturn(results, context)
       ELSE /\ ch_pc' = "loop"
            /\ ch_idx' = ch_idx + 1
            /\ ch_ret' = ch_ret

\* The except branch of execute for step ch_idx, after `results` were stored.
ChainOnError(results, context, err) ==
    ChainAdvance(Append(results, ErrorResult(ch_idx, err)), context,
                 IF ch_cfg.stop_on_error THEN ch_input ELSE PreviousStepFailed(err),
                 ch_cfg.stop_on_error)

\* execute is called: the loop starts, or returns at once for an empty list.
ChainExecute ==
    /\ ch_pc = "idle"
    /\ \E input \in InitialInputs, context \in InitialContexts :
         /\ ch_input' = input
         /\ ch_context' = context
         /\ IF ch_cfg.n = 0
            THEN /\ ch_pc' = "returned"
                 /\ ch_ret' = ChainReturn(<<>>, context)
            ELSE /\ ch_pc' = "loop"
                 /\ ch_ret' = ch_ret
    /\ UNCHANGED << ch_cfg, ch_idx, ch_agent, ch_agent_input, ch_results, ch_attempt, ch_call >>

\* One iteration starts: _prepare_input, then _execute_agent up to its first
\* request (or its return of None when the retry loop has no iteration).
\* The agent_config of the step is drawn here, where the loop reads it from
\* config.agents; the list is never changed, so this is the list fixed at
\* construction, read one entry at a time.
ChainStep ==
    /\ ch_pc = "loop"
    /\ \E agent_config \in AgentConfigs :
         LET prepared == PrepareInput(ch_input, ch_context, agent_config) IN
         /\ ch_agent' = agent_config
         /\ ch_call' = [NoCall EXCEPT !.called = prepared.ok]
         /\ IF ~ prepared.ok
            THEN /\ ChainOnError(ch_results, ch_context, prepared.error)
                 /\ UNCHANGED ch_agent_input
            ELSE /\ ch_agent_input' = prepared.text
                 /\ IF NoAttempts(ch_cfg.max_retries)
                    THEN ChainOnError(ch_results, ch_context, NoneResultError)
                    ELSE /\ ch_pc' = "post"
                         /\ ch_attempt' = 0
                         /\ UNCHANGED << ch_idx, ch_input, ch_context, ch_results, ch_ret >>
    /\ UNCHANGED ch_cfg

\* The call in progress with one more request counted.
Posted == [ch_call EXCEPT !.posts = @ + 1]

\* A request succeeds: the step result is stored, the context updated and the
\* next input extracted; a callable extractor returns a value or raises.
ChainPostOk ==
    /\ ch_pc = "post"
    /\ \E result \in Responses :
         LET results == Append(ch_results, StepResult(ch_idx, ch_agent_input, result))
             context == IF ch_cfg.pass_full_context
                        THEN Put(ch_context, StepName(ch_idx), result)
                        ELSE ch_context
         IN  /\ ch_call' = [Posted EXCEPT !.result = result]
             /\ IF ch_agent.output_extractor = "callable"
                THEN \/ \E v \in ExtractorReturns : ChainAdvance(results, context, v, FALSE)
                     \/ ChainOnError(results, context, ExtractorError)
                ELSE ChainAdvance(results, context, ExtractNextInput(result, ch_agent), FALSE)
    /\ UNCHANGED << ch_cfg, ch_agent, ch_agent_input >>

\* A request fails: re-raised after the last attempt, else the backoff sleep starts.
ChainPostFail ==
    /\ ch_pc = "post"
    /\ \E err \in CallErrors :
         /\ ch_call' = [Posted EXCEPT !.errors = Append(@, err)]
         /\ IF LastAttempt(ch_attempt, ch_cfg.max_retries)
            THEN ChainOnError(ch_results, ch_context, Reraise(Append(ch_call.errors, err)))
            ELSE /\ ch_pc' = "sleep"
                 /\ UNCHANGED << ch_idx, ch_input, ch_context, ch_results, ch_attempt, ch_ret >>
    /\ UNCHANGED << ch_cfg, ch_agent, ch_agent_input >>

\* asyncio.sleep(2 ** attempt) elapses and the next attempt is made.
ChainSleep ==
    /\ ch_pc = "sleep"
    /\ ch_call' = [ch_call EXCEPT !.sleeps = Append(@, Backoff(ch_attempt))]
    /\ ch_attempt' = ch_attempt + 1
    /\ ch_pc' = "post"
    /\ UNCHANGED << ch_cfg, ch_idx, ch_agent, ch_input, ch_agent_input, ch_context, ch_results, ch_ret >>

\* ------------------------------------------------------------------ router values
\* agent["name"] of the agent at position i of config.agents (1-based here).
RouterAgentName(i) == <<"r1", "r2", "r3", "r4", "r5", "r6">>[i]

\* A default_agent name that no agent of the list bears.
UnknownAgentName == "nobody"

\* config.default_agent is None.
NoDefault == "<none>"

\* str.lower() of a word.
Lower(word) ==
    IF word = "Python" THEN "python"
    ELSE IF word = "CODE" THEN "code"
    ELSE word

\* The input texts of route, as words separated by single spaces.
RouterInputs == { <<"write", "Python", "code">>, <<"hi">> }

\* len(word): the number of characters of a word of the input texts.
WordChars(word) ==
    IF word = "write" THEN 5
    ELSE IF word = "Python" THEN 6
    ELSE IF word = "code" THEN 4
    ELSE 2

\* len(input_text): the characters of the words and of the spaces between them.
RECURSIVE TextLen(_)
TextLen(text) ==
    IF text = <<>> THEN 0
    ELSE IF Len(text) = 1 THEN WordChars(text[1])
    ELSE WordChars(Head(text)) + 1 + TextLen(Tail(text))

\* The context argument of route.
RouterContexts == {EmptyContext, [k \in {"lang"} |-> <<"python">>]}

\* Routing rules: a pattern (a literal word, searched with re.IGNORECASE), a
\* keyword list, a context key with its value, a length range.
PatternRule == [pattern |-> "python"]
KeywordRule == [keywords |-> {"CODE"}]
ContextRule == [context_key |-> "lang", context_value |-> <<"python">>]
LengthRule == [min_length |-> 1, max_length |-> 2]

\* agent.get("routing_rules", []) of the agents configured.
RuleLists == { <<>>, <<PatternRule>>, <<KeywordRule>>, <<ContextRule>>, <<LengthRule>> }

RoutingStrategies == {"rule_based", "semantic", "load_balanced", "adaptive"}

\* str(e) of the failures of a router request.
RouterErrors == {<<"e1">>, <<"e2">>}

\* duration of a successful router request, in seconds.
RouterDurations == {1, 4}

\* result["output"] of a successful router request.
RouterOutput == <<"out">>

\* ------------------------------------------------------------------ router helpers
\* A rational number n/d with d > 0, for success_rate, avg_duration and scores.
Rat(n, d) == [n |-> n, d |-> d]
RatLess(a, b) == a.n * b.d < b.n * a.d
RatEq(a, b) == a.n * b.d = b.n * a.d

\* re.search(rule["pattern"], input_text, re.IGNORECASE)
PatternMatches(rule, input_text) ==
    \E k \in DOMAIN input_text : Lower(input_text[k]) = Lower(rule.pattern)

\* any(kw.lower() in input_text.lower() for kw in rule["keywords"])
KeywordMatches(rule, input_text) ==
    \E kw \in rule.keywords : \E k \in DOMAIN input_text : Lower(kw) = Lower(input_text[k])

\* context.get(rule["context_key"]) == rule.get("context_value")
ContextMatches(rule, context) ==
    /\ rule.context_key \in DOMAIN context
    /\ context[rule.context_key] = rule.context_value

\* rule["min_length"] <= len(input_text) <= rule["max_length"]
LengthMatches(rule, input_text) ==
    rule.min_length <= TextLen(input_text) /\ TextLen(input_text) <= rule.max_length

\* One rule of _rule_based_selection fires.
RuleFires(rule, input_text, context) ==
    \/ "pattern" \in DOMAIN rule /\ PatternMatches(rule, input_text)
    \/ "keywords" \in DOMAIN rule /\ KeywordMatches(rule, input_text)
    \/ "context_key" \in DOMAIN rule /\ ContextMatches(rule, context)
    \/ /\ "min_length" \in DOMAIN rule /\ "max_length" \in DOMAIN rule
       /\ LengthMatches(rule, input_text)

\* The value None of a selection.
NoAgent == 0

\* _get_default_agent falling back on the first agent when the name is unknown.
GetDefaultAgent_FirstWhenUnknown(cfg) == IF cfg.agents # <<>> THEN 1 ELSE NoAgent

\* AgentRouter._get_default_agent: the position of the agent, or NoAgent.
GetDefaultAgent(cfg) ==
    IF cfg.default_agent # NoDefault
    THEN LET named == { i \in DOMAIN cfg.agents : cfg.agents[i].name = cfg.default_agent }
         IN  IF named = {} THEN NoAgent ELSE CHOOSE i \in named : \A j \in named : i <= j
    ELSE IF cfg.agents # <<>> THEN 1 ELSE NoAgent

\* _rule_based_selection returning the last agent with a rule that fires.
RuleBasedSelection_Last(cfg, input_text, context) ==
    LET firing == { i \in DOMAIN cfg.agents :
                      \E k \in DOMAIN cfg.agents[i].routing_rules :
                          RuleFires(cfg.agents[i].routing_rules[k], input_text, context) }
    IN  IF firing # {} THEN CHOOSE i \in firing : \A j \in firing : i >= j
        ELSE GetDefaultAgent(cfg)

\* AgentRouter._rule_based_selection
RuleBasedSelection(cfg, input_text, context) ==
    LET firing == { i \in DOMAIN cfg.agents :
                      \E k \in DOMAIN cfg.agents[i].routing_rules :
                          RuleFires(cfg.agents[i].routing_rules[k], input_text, context) }
    IN  IF firing # {} THEN CHOOSE i \in firing : \A j \in firing : i <= j
        ELSE GetDefaultAgent(cfg)

\* self.performance_stats.get(name, {}).get("total_requests", 0)
TotalRequests(stats, name) ==
    IF name \in DOMAIN stats THEN stats[name].total_requests ELSE 0

\* _load_balanced_selection without the loads.
LoadBalancedSelection_First(cfg, stats) == GetDefaultAgent(cfg)

\* AgentRouter._load_balanced_selection: min over the loads by name, then the
\* first agent bearing that name.
LoadBalancedSelection(cfg, stats) ==
    IF cfg.agents = <<>> THEN GetDefaultAgent(cfg)
    ELSE LET least == CHOOSE i \in DOMAIN cfg.agents :
                        /\ \A j \in DOMAIN cfg.agents :
                             TotalRequests(stats, cfg.agents[i].name)
                               <= TotalRequests(stats, cfg.agents[j].name)
                        /\ \A j \in 1..(i - 1) :
                             TotalRequests(stats, cfg.agents[i].name)
                               < TotalRequests(stats, cfg.agents[j].name)
         IN  CHOOSE i \in DOMAIN cfg.agents :
               /\ cfg.agents[i].name = cfg.agents[least].name
               /\ \A j \in 1..(i - 1) : cfg.agents[j].name # cfg.agents[least].name

\* AgentRouter._matches_rules
MatchesRules(agent, input_text, context) ==
    IF agent.routing_rules = <<>> THEN TRUE
    ELSE \E k \in DOMAIN agent.routing_rules :
           LET rule == agent.routing_rules[k] IN
           \/ "pattern" \in DOMAIN rule /\ PatternMatches(rule, input_text)
           \/ "keywords" \in DOMAIN rule /\ KeywordMatches(rule, input_text)

\* The candidates of _adaptive_selection, as positions in list order.
AdaptiveCandidates(cfg, input_text, context) ==
    LET matching == SelectSeq([i \in DOMAIN cfg.agents |-> i],
                              LAMBDA i : MatchesRules(cfg.agents[i], input_text, context))
    IN  IF matching = <<>> THEN [i \in DOMAIN cfg.agents |-> i] ELSE matching

\* stats.get("success_rate", 0.5) and stats.get("avg_duration", 10)
SuccessRateOf(stats, name) == IF name \in DOMAIN stats THEN stats[name].success_rate ELSE Rat(1, 2)
AvgDurationOf(stats, name) == IF name \in DOMAIN stats THEN stats[name].avg_duration ELSE Rat(10, 1)

\* success_rate * 0.7 + (1 / (avg_duration + 1)) * 0.3, in exact arithmetic.
AdaptiveScore(success_rate, avg_duration) ==
    Rat(7 * success_rate.n * (avg_duration.n + avg_duration.d) + 3 * avg_duration.d * success_rate.d,
        10 * success_rate.d * (avg_duration.n + avg_duration.d))

ScoreOfAgent(cfg, stats, i) ==
    AdaptiveScore(SuccessRateOf(stats, cfg.agents[i].name), AvgDurationOf(stats, cfg.agents[i].name))

\* `score >= best_score`: the last of the candidates that tie is kept.
BetterScore_OrEqual(score, best_score) == ~ RatLess(score, best_score)

\* `score > best_score` of the loop of _adaptive_selection.
BetterScore(score, best_score) == RatLess(best_score, score)

\* The loop of _adaptive_selection from candidate k on.
RECURSIVE AdaptiveLoop(_, _, _, _, _, _)
AdaptiveLoop(cfg, stats, candidates, k, best_agent, best_score) ==
    IF k > Len(candidates) THEN best_agent
    ELSE LET score == ScoreOfAgent(cfg, stats, candidates[k]) IN
         IF BetterScore(score, best_score)
         THEN AdaptiveLoop(cfg, stats, candidates, k + 1, candidates[k], score)
         ELSE AdaptiveLoop(cfg, stats, candidates, k + 1, best_agent, best_score)

\* AgentRouter._adaptive_selection
AdaptiveSelection(cfg, stats, input_text, context) ==
    LET best_agent == AdaptiveLoop(cfg, stats, AdaptiveCandidates(cfg, input_text, context),
                                   1, NoAgent, Rat(-1, 1))
    IN  IF best_agent # NoAgent THEN best_agent ELSE GetDefaultAgent(cfg)

\* AgentRouter._select_agent
SelectAgent(cfg, stats, input_text, context) ==
    IF cfg.strategy = "rule_based" THEN RuleBasedSelection(cfg, input_text, context)
    ELSE IF cfg.strategy = "semantic" THEN RuleBasedSelection(cfg, input_text, context)
    ELSE IF cfg.strategy = "load_balanced" THEN LoadBalancedSelection(cfg, stats)
    ELSE IF cfg.strategy = "adaptive" THEN AdaptiveSelection(cfg, stats, input_text, context)
    ELSE GetDefaultAgent(cfg)

\* The entry _update_stats creates for an agent not seen before.
NewStats ==
    [total_requests |-> 0, successful_requests |-> 0, failed_requests |-> 0,
     total_duration |-> 0, success_rate |-> Rat(0, 1), avg_duration |-> Rat(0, 1)]

\* success_rate computed against one request too many.
SuccessRate_Stale(successful_requests, total_requests) == Rat(successful_requests, total_requests + 1)

\* stats["success_rate"] = stats["successful_requests"] / stats["total_requests"]
SuccessRate(successful_requests, total_requests) == Rat(successful_requests, total_requests)

\* AgentRouter._update_stats
UpdateStats(stats, agent_name, success, duration) ==
    LET old == IF agent_name \in DOMAIN stats THEN stats[agent_name] ELSE NewStats
        total == old.total_requests + 1
        successful == IF success THEN old.successful_requests + 1 ELSE old.successful_requests
        failed == IF success THEN old.failed_requests ELSE old.failed_requests + 1
        total_duration == IF success THEN old.total_duration + duration ELSE old.total_duration
    IN  Put(stats, agent_name,
            [total_requests |-> total, successful_requests |-> successful,
             failed_requests |-> failed, total_duration |-> total_duration,
             success_rate |-> SuccessRate(successful, total),
             avg_duration |-> IF successful > 0 THEN Rat(total_duration, successful)
                              ELSE old.avg_duration])

\* fallback_agents without the exclusion of the failed agent.
FallbackAgents_All(cfg, failed) == [i \in DOMAIN cfg.agents |-> i]

\* fallback_agents of _try_fallback, as positions in list order.
FallbackAgents(cfg, failed) ==
    SelectSeq([i \in DOMAIN cfg.agents |-> i],
              LAMBDA i : cfg.agents[i].name # cfg.agents[failed].name)

\* ------------------------------------------------------------------ router actions
NoSuitableAgent == <<"No suitable agent found">>

\* The dict route returns when no agent was selected.
NoAgentReturn(input_text) ==
    [success |-> FALSE, error |-> NoSuitableAgent, input |-> input_text]

\* The dict route returns when the primary agent answered.
PrimaryReturn(cfg, selected) ==
    [success |-> TRUE, agent |-> cfg.agents[selected].name, output |-> RouterOutput,
     metadata |-> EmptyContext, routing_strategy |-> cfg.strategy]

\* The dict _try_fallback returns when a fallback agent answered.
FallbackReturn(cfg, agent, failed) ==
    [success |-> TRUE, agent |-> cfg.agents[agent].name, output |-> RouterOutput,
     fallback |-> TRUE, failed_agent |-> cfg.agents[failed].name]

\* The failure return without the agent and the error of the primary attempt.
FailureReturn_Unnamed(cfg, selected, primary_error, input_text) ==
    [success |-> FALSE, error |-> NoSuitableAgent, input |-> input_text]

\* The dict route returns when the primary agent failed and no fallback answered.
FailureReturn(cfg, selected, primary_error, input_text) ==
    [success |-> FALSE, agent |-> cfg.agents[selected].name, error |-> primary_error,
     input |-> input_text]

NoRouterReturn == [success |-> Missing]

\* route, up to its first await of a request, or to its return when no agent
\* was selected.
RouteCall ==
    /\ rt_pc \in {"idle", "returned"}
    /\ rt_left > 0
    /\ \E input_text \in rt_env.inputs, context \in rt_env.contexts :
         LET selected == SelectAgent(rt_cfg, rt_stats, input_text, context) IN
         /\ rt_input' = input_text
         /\ rt_context' = context
         /\ rt_selected' = selected
         /\ rt_candidates' = IF rt_cfg.strategy = "adaptive"
                             THEN AdaptiveCandidates(rt_cfg, input_text, context)
                             ELSE <<>>
         /\ IF selected = NoAgent
            THEN rt_pc' = "returned" /\ rt_ret' = NoAgentReturn(input_text)
            ELSE rt_pc' = "primary" /\ rt_ret' = NoRouterReturn
    /\ rt_left' = rt_left - 1
    /\ rt_base' = rt_stats
    /\ rt_attempts' = <<>>
    /\ rt_fallback' = <<>>
    /\ rt_error' = Missing
    /\ UNCHANGED << rt_cfg, rt_env, rt_held, rt_stats >>

\* The request to the primary agent answers: stats, then the return.
RoutePrimaryOk ==
    /\ rt_pc = "primary"
    /\ \E duration \in RouterDurations :
         rt_stats' = UpdateStats(rt_stats, rt_cfg.agents[rt_selected].name, TRUE, duration)
    /\ rt_attempts' = Append(rt_attempts, [agent |-> rt_selected, error |-> Missing])
    /\ rt_ret' = PrimaryReturn(rt_cfg, rt_selected)
    /\ rt_pc' = "returned"
    /\ UNCHANGED << rt_cfg, rt_env, rt_held, rt_left, rt_input, rt_context, rt_selected,
                    rt_candidates, rt_base, rt_fallback, rt_error >>

\* The request to the primary agent raises: stats, then the first fallback
\* request, or the return when there is no fallback to try.
RoutePrimaryFail ==
    /\ rt_pc = "primary"
    /\ \E e \in RouterErrors :
         LET fallback_agents == IF rt_cfg.enable_fallback
                                THEN FallbackAgents(rt_cfg, rt_selected)
                                ELSE <<>>
         IN  /\ rt_error' = e
             /\ rt_attempts' = Append(rt_attempts, [agent |-> rt_selected, error |-> e])
             /\ rt_fallback' = fallback_agents
             /\ IF fallback_agents = <<>>
                THEN /\ rt_pc' = "returned"
                     /\ rt_ret' = FailureReturn(rt_cfg, rt_selected, e, rt_input)
                ELSE /\ rt_pc' = "fallback"
                     /\ rt_ret' = NoRouterReturn
    /\ rt_stats' = UpdateStats(rt_stats, rt_cfg.agents[rt_selected].name, FALSE, 0)
    /\ UNCHANGED << rt_cfg, rt_env, rt_held, rt_left, rt_input, rt_context, rt_selected,
                    rt_candidates, rt_base >>

\* The request to the fallback agent in turn answers: stats, then the return.
RouteFallbackOk ==
    /\ rt_pc = "fallback"
    /\ \E duration \in RouterDurations :
         rt_stats' = UpdateStats(rt_stats, rt_cfg.agents[Head(rt_fallback)].name, TRUE, duration)
    /\ rt_attempts' = Append(rt_attempts, [agent |-> Head(rt_fallback), error |-> Missing])
    /\ rt_ret' = FallbackReturn(rt_cfg, Head(rt_fallback), rt_selected)
    /\ rt_pc' = "returned"
    /\ UNCHANGED << rt_cfg, rt_env, rt_held, rt_left, rt_input, rt_context, rt_selected,
                    rt_candidates, rt_base, rt_fallback, rt_error >>

\* The request to the fallback agent in turn raises: the loop continues with
\* the next one, or route returns the failure of the primary agent.
RouteFallbackFail ==
    /\ rt_pc = "fallback"
    /\ \E e \in RouterErrors :
         /\ rt_attempts' = Append(rt_attempts, [agent |-> Head(rt_fallback), error |-> e])
         /\ IF Tail(rt_fallback) = <<>>
            THEN /\ rt_pc' = "returned"
                 /\ rt_ret' = FailureReturn(rt_cfg, rt_selected, rt_error, rt_input)
            ELSE /\ rt_pc' = "fallback"
                 /\ rt_ret' = NoRouterReturn
    /\ rt_fallback' = Tail(rt_fallback)
    /\ UNCHANGED << rt_cfg, rt_env, rt_held, rt_left, rt_stats, rt_input, rt_context, rt_selected,
                    rt_candidates, rt_base, rt_error >>

\* The agents a router is configured with: n of them, each with at most one rule.
RouterAgents(n, rules) ==
    { [i \in 1..n |-> [name |-> RouterAgentName(i), routing_rules |-> rs[i]]] :
        rs \in [1..n -> rules] }

RouterConfigs(sizes, rules, strategies, defaults) ==
    UNION { [agents : RouterAgents(n, rules), strategy : strategies,
             default_agent : defaults, enable_fallback : BOOLEAN] : n \in sizes }

NoStats == [name \in {} |-> NewStats]

\* A router just constructed, and the requests its caller is going to make.
RouterInit(configs, envs) ==
    /\ rt_cfg \in configs
    /\ rt_env \in envs
    /\ rt_left = rt_env.calls
    /\ rt_stats = NoStats
    /\ rt_pc = "idle"
    /\ rt_input = <<>>
    /\ rt_context = EmptyContext
    /\ rt_selected = NoAgent
    /\ rt_candidates = <<>>
    /\ rt_base = NoStats
    /\ rt_attempts = <<>>
    /\ rt_fallback = <<>>
    /\ rt_error = Missing
    /\ rt_ret = NoRouterReturn
    /\ rt_held = FALSE

\* No router in use.
RouterIdle ==
    RouterInit({[agents |-> <<>>, strategy |-> "rule_based", default_agent |-> NoDefault,
                 enable_fallback |-> FALSE]},
               {[calls |-> 0, inputs |-> {}, contexts |-> {}]})

NextRouter ==
    \/ RouteCall /\ UNCHANGED << chainVars, parVars, evalVars, overlapVars >>
    \/ RoutePrimaryOk /\ UNCHANGED << chainVars, parVars, evalVars, overlapVars >>
    \/ RoutePrimaryFail /\ UNCHANGED << chainVars, parVars, evalVars, overlapVars >>
    \/ RouteFallbackOk /\ UNCHANGED << chainVars, parVars, evalVars, overlapVars >>
    \/ RouteFallbackFail /\ UNCHANGED << chainVars, parVars, evalVars, overlapVars >>

\* The dict a caller got from get_stats, as it reads now: get_stats returns
\* self.performance_stats itself, so it reads as the router's dict does.
ReturnedStats == rt_stats

\* get_stats is called between two requests and the caller keeps the result.
RouterGetStats ==
    /\ rt_pc \in {"idle", "returned"}
    /\ ~ rt_held
    /\ rt_held' = TRUE
    /\ UNCHANGED << rt_cfg, rt_env, rt_left, rt_stats, rt_pc, rt_input, rt_context, rt_selected,
                    rt_candidates, rt_base, rt_attempts, rt_fallback, rt_error, rt_ret >>

\* The caller empties the dict it got from get_stats (clear()): it is the
\* router's own dict that is emptied.
CallerClearsStats ==
    /\ rt_pc \in {"idle", "returned"}
    /\ rt_held
    /\ ReturnedStats # NoStats
    /\ rt_stats' = NoStats
    /\ UNCHANGED << rt_cfg, rt_env, rt_held, rt_left, rt_pc, rt_input, rt_context, rt_selected,
                    rt_candidates, rt_base, rt_attempts, rt_fallback, rt_error, rt_ret >>

\* A router and a caller that reads its stats.
NextObserve ==
    \/ RouteCall /\ UNCHANGED << chainVars, parVars, evalVars, overlapVars >>
    \/ RoutePrimaryOk /\ UNCHANGED << chainVars, parVars, evalVars, overlapVars >>
    \/ RoutePrimaryFail /\ UNCHANGED << chainVars, parVars, evalVars, overlapVars >>
    \/ RouteFallbackOk /\ UNCHANGED << chainVars, parVars, evalVars, overlapVars >>
    \/ RouteFallbackFail /\ UNCHANGED << chainVars, parVars, evalVars, overlapVars >>
    \/ RouterGetStats /\ UNCHANGED << chainVars, parVars, evalVars, overlapVars >>
    \/ CallerClearsStats /\ UNCHANGED << chainVars, parVars, evalVars, overlapVars >>

\* ------------------------------------------------------------------ router, overlapping calls
\* A route call not yet made.
NoRouteCall ==
    [pc |-> "idle", input |-> <<>>, selected |-> NoAgent, base |-> NoStats,
     attempts |-> <<>>, fallback |-> <<>>, error |-> Missing, ret |-> NoRouterReturn]

\* Mutant of CurrentStats: the stats as they were when route was called.
CurrentStats_AtCall(now, at_call) == at_call

\* The dict _update_stats works on: self.performance_stats as it is when
\* _update_stats runs, after the awaits of route.
CurrentStats(now, at_call) == now

\* The route call a caller makes next: calls are numbered as they are made.
NextCall == rt_env.calls - rt_left + 1

\* The variables of a single sequential caller play no part.
OverlapFrame ==
    UNCHANGED << rt_cfg, rt_env, rt_held, rt_pc, rt_input, rt_context, rt_selected,
                 rt_candidates, rt_base, rt_attempts, rt_fallback, rt_error, rt_ret >>

\* route is called while other calls may be suspended at their requests: it
\* runs up to its first await, or to its return when no agent was selected.
OverlapCall ==
    /\ rt_left > 0
    /\ NextCall \in DOMAIN ov_calls
    /\ \E input_text \in rt_env.inputs, context \in rt_env.contexts :
         LET selected == SelectAgent(rt_cfg, rt_stats, input_text, context) IN
         ov_calls' = [ov_calls EXCEPT ![NextCall] =
                        [NoRouteCall EXCEPT
                           !.pc = IF selected = NoAgent THEN "returned" ELSE "primary",
                           !.input = input_text,
                           !.selected = selected,
                           !.base = rt_stats,
                           !.ret = IF selected = NoAgent THEN NoAgentReturn(input_text)
                                   ELSE NoRouterReturn]]
    /\ rt_left' = rt_left - 1
    /\ UNCHANGED rt_stats
    /\ OverlapFrame

\* The request of a call to its primary agent answers: stats, then the return.
OverlapPrimaryOk ==
    /\ \E c \in DOMAIN ov_calls :
         LET call == ov_calls[c] IN
         /\ call.pc = "primary"
         /\ \E duration \in RouterDurations :
              rt_stats' = UpdateStats(CurrentStats(rt_stats, call.base),
                                      rt_cfg.agents[call.selected].name, TRUE, duration)
         /\ ov_calls' = [ov_calls EXCEPT ![c] =
                           [call EXCEPT
                              !.attempts = Append(@, [agent |-> call.selected, error |-> Missing]),
                              !.ret = PrimaryReturn(rt_cfg, call.selected),
                              !.pc = "returned"]]
    /\ UNCHANGED rt_left
    /\ OverlapFrame

\* The request of a call to its primary agent raises: stats, then the first
\* fallback request, or the return when there is no fallback to try.
OverlapPrimaryFail ==
    /\ \E c \in DOMAIN ov_calls :
         LET call == ov_calls[c]
             fallback_agents == IF rt_cfg.enable_fallback
                                THEN FallbackAgents(rt_cfg, call.selected)
                                ELSE <<>>
         IN  /\ call.pc = "primary"
             /\ rt_stats' = UpdateStats(CurrentStats(rt_stats, call.base),
                                        rt_cfg.agents[call.selected].name, FALSE, 0)
             /\ \E e \in RouterErrors :
                  ov_calls' = [ov_calls EXCEPT ![c] =
                                 [call EXCEPT
                                    !.attempts = Append(@, [agent |-> call.selected, error |-> e]),
                                    !.error = e,
                                    !.fallback = fallback_agents,
                                    !.ret = IF fallback_agents = <<>>
                                            THEN FailureReturn(rt_cfg, call.selected, e, call.input)
                                            ELSE NoRouterReturn,
                                    !.pc = IF fallback_agents = <<>> THEN "returned"
                                           ELSE "fallback"]]
    /\ UNCHANGED rt_left
    /\ OverlapFrame

\* The request of a call to the fallback agent in turn answers: stats, then
\* the return.
OverlapFallbackOk ==
    /\ \E c \in DOMAIN ov_calls :
         LET call == ov_calls[c] IN
         /\ call.pc = "fallback"
         /\ \E duration \in RouterDurations :
              rt_stats' = UpdateStats(CurrentStats(rt_stats, call.base),
                                      rt_cfg.agents[Head(call.fallback)].name, TRUE, duration)
         /\ ov_calls' = [ov_calls EXCEPT ![c] =
                           [call EXCEPT
                              !.attempts = Append(@, [agent |-> Head(call.fallback),
                                                      error |-> Missing]),
                              !.ret = FallbackReturn(rt_cfg, Head(call.fallback), call.selected),
                              !.pc = "returned"]]
    /\ UNCHANGED rt_left
    /\ OverlapFrame

\* The request of a call to the fallback agent in turn raises: the loop goes
\* on with the next one, or route returns the failure of the primary agent.
OverlapFallbackFail ==
    /\ \E c \in DOMAIN ov_calls :
         LET call == ov_calls[c] IN
         /\ call.pc = "fallback"
         /\ \E e \in RouterErrors :
              ov_calls' = [ov_calls EXCEPT ![c] =
                             [call EXCEPT
                                !.attempts = Append(@, [agent |-> Head(call.fallback),
                                                        error |-> e]),
                                !.fallback = Tail(@),
                                !.ret = IF Tail(call.fallback) = <<>>
                                        THEN FailureReturn(rt_cfg, call.selected, call.error,
                                                           call.input)
                                        ELSE NoRouterReturn,
                                !.pc = IF Tail(call.fallback) = <<>> THEN "returned"
                                       ELSE "fallback"]]
    /\ UNCHANGED << rt_left, rt_stats >>
    /\ OverlapFrame

\* No route call overlaps another.
OverlapIdle == ov_calls = <<>>

NextOverlap ==
    \/ OverlapCall /\ UNCHANGED << chainVars, parVars, evalVars >>
    \/ OverlapPrimaryOk /\ UNCHANGED << chainVars, parVars, evalVars >>
    \/ OverlapPrimaryFail /\ UNCHANGED << chainVars, parVars, evalVars >>
    \/ OverlapFallbackOk /\ UNCHANGED << chainVars, parVars, evalVars >>
    \/ OverlapFallbackFail /\ UNCHANGED << chainVars, parVars, evalVars >>

\* ------------------------------------------------------------------ evaluator values
\* EvaluationMetric values other than CUSTOM.
PlainMetrics == {"accuracy", "completeness", "clarity", "safety"}
CustomMetric == "custom"

\* The names of config.custom_evaluators, in the order of the dict.
EvaluatorName(k) == <<"code_quality", "style", "tone", "length">>[k]

\* What a custom evaluator does when called: raise, or return a number, which
\* may lie outside [0, 1].
Raises == [raises |-> TRUE]
EvaluatorBehaviours == {Raises, Rat(1, 4), Rat(3, 2), Rat(-1, 2)}

\* config.threshold
Thresholds == {Rat(1, 2), Rat(7, 10)}

\* Texts to evaluate, by their words and what the heuristics measure of them:
\* len(text), text.count('\n'), text.count('.'), whether one of '1.', '2.',
\* '-', '*' occurs, whether one of '???', '...', 'unclear' occurs.
\* 'Python code'
ShortText ==
    [words |-> <<"Python", "code">>,
     chars |-> 11, newlines |-> 0, periods |-> 0, markers |-> FALSE, unclear |-> FALSE]
\* 'steps:\n- write the code\n- run it\n- read the output\n- unclear ???'
ListText ==
    [words |-> <<"steps:", "-", "write", "the", "code", "-", "run", "it", "-", "read", "the",
                  "output", "-", "unclear", "???">>,
     chars |-> 64, newlines |-> 4, periods |-> 0, markers |-> TRUE, unclear |-> TRUE]
\* 'write the code in Python and run it on the input to see the result. ...'
LongText ==
    [words |-> <<"write", "the", "code", "in", "Python", "and", "run", "it", "on", "the",
                  "input", "to", "see", "the", "result.", "write", "the",
                  "code", "in", "Python", "and", "run", "it", "on", "the",
                  "input", "to", "see", "the", "result.", "write", "the",
                  "code", "in", "Python", "and", "run", "it", "on", "the",
                  "input", "to", "see", "the", "result.", "read", "the",
                  "output", "and", "fix", "the", "code.", "done">>,
     chars |-> 242, newlines |-> 0, periods |-> 4, markers |-> FALSE, unclear |-> FALSE]
\* ' '
BlankText ==
    [words |-> <<>>,
     chars |-> 1, newlines |-> 0, periods |-> 0, markers |-> FALSE, unclear |-> FALSE]
EvalOutputs == {ShortText, ListText, LongText}

\* expected: None (or the empty string), or a text; " " is true and has no words.
NoExpected ==
    [words |-> <<>>,
     chars |-> 0, newlines |-> 0, periods |-> 0, markers |-> FALSE, unclear |-> FALSE]
EvalExpected == {NoExpected, BlankText, ShortText}

\* result.get("content", "0.5") of the judge's answer, as words.
JudgeResponses == { <<"0.8">>, <<"Score:", "7">>, <<"-0.5">>, <<"good">> }

\* ------------------------------------------------------------------ evaluator helpers
\* min(max(score, 0.0), 1.0)
Clamp(score) ==
    IF RatLess(score, Rat(0, 1)) THEN Rat(0, 1)
    ELSE IF RatLess(Rat(1, 1), score) THEN Rat(1, 1)
    ELSE score

\* min(score, 1.0)
MinOne(score) == IF RatLess(Rat(1, 1), score) THEN Rat(1, 1) ELSE score

RECURSIVE Gcd(_, _)
Gcd(a, b) == IF b = 0 THEN a ELSE Gcd(b, a % b)

\* The fraction in lowest terms.
Norm(r) ==
    LET g == Gcd(IF r.n < 0 THEN -r.n ELSE r.n, r.d)
    IN  Rat(r.n \div g, r.d \div g)

RatAdd(a, b) == Norm(Rat(a.n * b.d + b.n * a.d, a.d * b.d))

\* set(text.lower().split())
WordSet(text) == { Lower(text.words[k]) : k \in DOMAIN text.words }

\* No match of the pattern.
NoNumber == [none |-> TRUE]

\* float(match.group(1)) for the match of r"(\d+\.?\d*)" in a word, if any: a
\* sign before the digits is no part of the match.
NumberIn(word) ==
    IF word = "0.8" THEN Rat(8, 10)
    ELSE IF word = "7" THEN Rat(7, 1)
    ELSE IF word = "-0.5" THEN Rat(5, 10)
    ELSE NoNumber

\* re.search(r"(\d+\.?\d*)", score_text): the first number of the text.
RECURSIVE FirstNumber(_)
FirstNumber(score_text) ==
    IF score_text = <<>> THEN NoNumber
    ELSE IF NumberIn(Head(score_text)) # NoNumber THEN NumberIn(Head(score_text))
    ELSE FirstNumber(Tail(score_text))

\* AgentEvaluator.evaluate_with_llm, from the answer of the judge on.
JudgeScore(score_text) ==
    IF FirstNumber(score_text) # NoNumber THEN Clamp(FirstNumber(score_text)) ELSE Rat(1, 2)

\* The score evaluate_with_llm returns when the request raises.
JudgeErrorScore == Rat(1, 2)

\* The COMPLETENESS branch of _evaluate_heuristic.
HeuristicCompleteness(output) ==
    MinOne(RatAdd(RatAdd(IF output.chars > 50 THEN Rat(3, 10) ELSE Rat(0, 10),
                         IF output.chars > 200 THEN Rat(3, 10) ELSE Rat(0, 10)),
                  RatAdd(IF output.newlines > 2 THEN Rat(2, 10) ELSE Rat(0, 10),
                         IF output.markers THEN Rat(2, 10) ELSE Rat(0, 10))))

\* The CLARITY branch of _evaluate_heuristic.
HeuristicClarity(output) ==
    MinOne(RatAdd(RatAdd(Rat(5, 10),
                         IF Len(output.words) > 10 THEN Rat(2, 10) ELSE Rat(0, 10)),
                  RatAdd(IF output.periods > 1 THEN Rat(1, 10) ELSE Rat(0, 10),
                         IF ~ output.unclear THEN Rat(2, 10) ELSE Rat(0, 10))))

\* The ACCURACY branch of _evaluate_heuristic, for an expected text that is true.
HeuristicAccuracy(output, expected) ==
    IF WordSet(expected) = {} THEN Rat(1, 2)
    ELSE Rat(Cardinality(WordSet(output) \cap WordSet(expected)), Cardinality(WordSet(expected)))

\* AgentEvaluator._evaluate_heuristic
EvaluateHeuristic(output, expected, metric) ==
    IF metric = "completeness" THEN HeuristicCompleteness(output)
    ELSE IF metric = "clarity" THEN HeuristicClarity(output)
    ELSE IF metric = "accuracy" /\ expected.chars > 0 THEN HeuristicAccuracy(output, expected)
    ELSE Rat(1, 2)

\* AgentEvaluator._evaluate_custom: what the evaluator returns, as it is, or
\* 0.0 when it raises.
EvaluateCustom(behaviour) == IF behaviour = Raises THEN Rat(0, 1) ELSE behaviour

\* sum(scores.values())
RECURSIVE SumScores(_)
SumScores(scores) ==
    IF DOMAIN scores = {} THEN Rat(0, 1)
    ELSE LET name == CHOOSE x \in DOMAIN scores : TRUE
         IN  RatAdd(scores[name], SumScores([x \in DOMAIN scores \ {name} |-> scores[x]]))

\* sum(scores.values()) / len(scores) if scores else 0.0
OverallScore(scores) ==
    IF DOMAIN scores = {} THEN Rat(0, 1)
    ELSE Norm(Rat(SumScores(scores).n, SumScores(scores).d * Cardinality(DOMAIN scores)))

\* overall_score > self.config.threshold
Passed_Strict(overall_score, threshold) == RatLess(threshold, overall_score)

\* overall_score >= self.config.threshold
Passed(overall_score, threshold) == ~ RatLess(overall_score, threshold)

\* The dict evaluate returns (the timestamp left out).
EvaluateReturn(scores, threshold) ==
    [scores |-> scores, overall_score |-> OverallScore(scores),
     passed |-> Passed(OverallScore(scores), threshold), threshold |-> threshold]

\* ------------------------------------------------------------------ evaluator actions
\* str(e) of the AttributeError evaluate raises at self._evaluate_with_llm,
\* a method AgentEvaluator does not define.
NoJudgeMethod == <<"'AgentEvaluator' object has no attribute '_evaluate_with_llm'">>

NoScores == [name \in {} |-> Rat(0, 1)]
NoEvaluateReturn == [passed |-> Missing]
\* A call of evaluate_with_llm waits at its request to the judge.
Awaited == [awaited |-> TRUE]

\* The metric in turn in the loop of evaluate.
MetricInTurn == ev_cfg.metrics[ev_idx]

\* evaluate is called.
EvalCall ==
    /\ ev_pc = "idle"
    /\ ev_output' \in EvalOutputs
    /\ ev_expected' \in EvalExpected
    /\ ev_scores' = NoScores
    /\ ev_idx' = 1
    /\ ev_evaluator' = 1
    /\ ev_pc' = "loop"
    /\ UNCHANGED << ev_cfg, ev_raised, ev_error, ev_ret, ev_judged >>

\* A metric other than CUSTOM, without the judge: the heuristic score.
EvalHeuristic ==
    /\ ev_pc = "loop" /\ ev_idx <= Len(ev_cfg.metrics)
    /\ MetricInTurn # CustomMetric /\ ~ ev_cfg.use_llm_judge
    /\ ev_scores' = Put(ev_scores, MetricInTurn, EvaluateHeuristic(ev_output, ev_expected, MetricInTurn))
    /\ ev_idx' = ev_idx + 1
    /\ UNCHANGED << ev_cfg, ev_pc, ev_output, ev_expected, ev_evaluator, ev_raised, ev_error,
                    ev_ret, ev_judged >>

\* A metric other than CUSTOM, with the judge: the lookup of
\* self._evaluate_with_llm raises, and evaluate with it.
EvalJudge ==
    /\ ev_pc = "loop" /\ ev_idx <= Len(ev_cfg.metrics)
    /\ MetricInTurn # CustomMetric /\ ev_cfg.use_llm_judge
    /\ ev_pc' = "raised"
    /\ ev_error' = NoJudgeMethod
    /\ UNCHANGED << ev_cfg, ev_output, ev_expected, ev_scores, ev_idx, ev_evaluator, ev_raised,
                    ev_ret, ev_judged >>

\* The CUSTOM metric: the custom evaluator in turn is called and its score
\* stored under its name; after the last one the loop of metrics goes on.
EvalCustom ==
    /\ ev_pc = "loop" /\ ev_idx <= Len(ev_cfg.metrics)
    /\ MetricInTurn = CustomMetric /\ ev_evaluator <= ev_cfg.custom_evaluators
    /\ \E behaviour \in EvaluatorBehaviours :
         /\ ev_scores' = Put(ev_scores, EvaluatorName(ev_evaluator), EvaluateCustom(behaviour))
         /\ ev_raised' = IF behaviour = Raises
                         THEN ev_raised \cup {EvaluatorName(ev_evaluator)}
                         ELSE ev_raised \ {EvaluatorName(ev_evaluator)}
    /\ IF ev_evaluator = ev_cfg.custom_evaluators
       THEN ev_idx' = ev_idx + 1 /\ ev_evaluator' = 1
       ELSE ev_idx' = ev_idx /\ ev_evaluator' = ev_evaluator + 1
    /\ UNCHANGED << ev_cfg, ev_pc, ev_output, ev_expected, ev_error, ev_ret, ev_judged >>

\* The CUSTOM metric without custom evaluators scores nothing.
EvalCustomNone ==
    /\ ev_pc = "loop" /\ ev_idx <= Len(ev_cfg.metrics)
    /\ MetricInTurn = CustomMetric /\ ev_cfg.custom_evaluators = 0
    /\ ev_idx' = ev_idx + 1
    /\ UNCHANGED << ev_cfg, ev_pc, ev_output, ev_expected, ev_scores, ev_evaluator, ev_raised,
                    ev_error, ev_ret, ev_judged >>

\* The loop of metrics is over: overall score, passed, return.
EvalReturn ==
    /\ ev_pc = "loop" /\ ev_idx > Len(ev_cfg.metrics)
    /\ ev_ret' = EvaluateReturn(ev_scores, ev_cfg.threshold)
    /\ ev_pc' = "returned"
    /\ UNCHANGED << ev_cfg, ev_output, ev_expected, ev_scores, ev_idx, ev_evaluator, ev_raised,
                    ev_error, ev_judged >>

\* evaluate_with_llm is called by its public name, whatever evaluate or
\* earlier calls of evaluate_with_llm are doing: it builds the prompt, sends
\* the request to the judge and waits for the answer.
EvaluateWithLlmCall ==
    /\ Len(ev_judged) < MaxJudgeCalls
    /\ ev_judged' = Append(ev_judged, Awaited)
    /\ UNCHANGED << ev_cfg, ev_pc, ev_output, ev_expected, ev_scores, ev_idx, ev_evaluator,
                    ev_raised, ev_error, ev_ret >>

\* A call of evaluate_with_llm resumes, in any order among those waiting:
\* the judge answered, or the request raised, and the call returns its score.
EvaluateWithLlmReturn ==
    /\ \E call \in DOMAIN ev_judged :
         /\ ev_judged[call] = Awaited
         /\ \/ \E score_text \in JudgeResponses :
                 ev_judged' = [ev_judged EXCEPT ![call] = JudgeScore(score_text)]
            \/ ev_judged' = [ev_judged EXCEPT ![call] = JudgeErrorScore]
    /\ UNCHANGED << ev_cfg, ev_pc, ev_output, ev_expected, ev_scores, ev_idx, ev_evaluator,
                    ev_raised, ev_error, ev_ret >>

RECURSIVE SeqsUpTo(_, _)
\* The sequences of at most n elements of a set.
SeqsUpTo(S, n) ==
    IF n = 0 THEN {<<>>}
    ELSE SeqsUpTo(S, n - 1) \cup { Append(s, x) : s \in { t \in SeqsUpTo(S, n - 1) : Len(t) = n - 1 }, x \in S }

\* EvaluatorConfig: metrics, threshold, use_llm_judge, and how many
\* custom_evaluators.
EvaluatorConfigs(metricLists, evaluators) ==
    [metrics : metricLists, threshold : Thresholds, use_llm_judge : BOOLEAN,
     custom_evaluators : evaluators]

\* An evaluator just constructed.
EvalInit(configs) ==
    /\ ev_cfg \in configs
    /\ ev_pc = "idle"
    /\ ev_output = NoExpected
    /\ ev_expected = NoExpected
    /\ ev_scores = NoScores
    /\ ev_idx = 1
    /\ ev_evaluator = 1
    /\ ev_raised = {}
    /\ ev_error = Missing
    /\ ev_ret = NoEvaluateReturn
    /\ ev_judged = <<>>

\* No evaluator in use.
EvalIdle ==
    /\ EvalInit({[metrics |-> <<>>, threshold |-> Rat(0, 1), use_llm_judge |-> FALSE,
                  custom_evaluators |-> 0]})

NextEval ==
    \/ EvalCall /\ UNCHANGED << chainVars, parVars, routerVars, overlapVars >>
    \/ EvalHeuristic /\ UNCHANGED << chainVars, parVars, routerVars, overlapVars >>
    \/ EvalJudge /\ UNCHANGED << chainVars, parVars, routerVars, overlapVars >>
    \/ EvalCustom /\ UNCHANGED << chainVars, parVars, routerVars, overlapVars >>
    \/ EvalCustomNone /\ UNCHANGED << chainVars, parVars, routerVars, overlapVars >>
    \/ EvalReturn /\ UNCHANGED << chainVars, parVars, routerVars, overlapVars >>

\* An evaluator with the judge enabled, where the heuristic branch of
\* evaluate is out of reach, and callers of evaluate_with_llm.
NextJudge ==
    \/ EvalCall /\ UNCHANGED << chainVars, parVars, routerVars, overlapVars >>
    \/ EvalJudge /\ UNCHANGED << chainVars, parVars, routerVars, overlapVars >>
    \/ EvalCustom /\ UNCHANGED << chainVars, parVars, routerVars, overlapVars >>
    \/ EvalCustomNone /\ UNCHANGED << chainVars, parVars, routerVars, overlapVars >>
    \/ EvalReturn /\ UNCHANGED << chainVars, parVars, routerVars, overlapVars >>
    \/ EvaluateWithLlmCall /\ UNCHANGED << chainVars, parVars, routerVars, overlapVars >>
    \/ EvaluateWithLlmReturn /\ UNCHANGED << chainVars, parVars, routerVars, overlapVars >>

\* max_retries of the chains of SpecChain: negative, no attempt, one attempt,
\* one retry.
ChainRetries == {-1, 0, 1, 2}

ChainConfigs(maxSteps, retries) ==
    [n : 0..maxSteps, max_retries : retries,
     pass_full_context : BOOLEAN, stop_on_error : BOOLEAN]

ChainInit(configs) ==
    /\ ch_cfg \in configs
    /\ ch_pc = "idle"
    /\ ch_idx = 0
    /\ ch_agent = [input_template |-> NoTemplate, output_extractor |-> "none"]
    /\ ch_input = <<>>
    /\ ch_agent_input = <<>>
    /\ ch_context = EmptyContext
    /\ ch_results = <<>>
    /\ ch_attempt = 0
    /\ ch_call = NoCall
    /\ ch_ret = [success |-> FALSE, steps |-> <<>>, final_output |-> <<>>, context |-> EmptyContext]

NextChain ==
    \/ ChainExecute /\ UNCHANGED << parVars, routerVars, evalVars, overlapVars >>
    \/ ChainStep /\ UNCHANGED << parVars, routerVars, evalVars, overlapVars >>
    \/ ChainPostOk /\ UNCHANGED << parVars, routerVars, evalVars, overlapVars >>
    \/ ChainPostFail /\ UNCHANGED << parVars, routerVars, evalVars, overlapVars >>
    \/ ChainSleep /\ UNCHANGED << parVars, routerVars, evalVars, overlapVars >>

\* Chains of up to MaxSteps steps.
InitChain == ChainInit(ChainConfigs(MaxSteps, ChainRetries)) /\ ParIdle /\ RouterIdle /\ EvalIdle /\ OverlapIdle
SpecChain == InitChain /\ [][NextChain]_vars

\* One-step chains with up to MaxRetries attempts.
InitRetry == ChainInit({c \in ChainConfigs(1, 0..MaxRetries) : c.n = 1}) /\ ParIdle /\ RouterIdle /\ EvalIdle /\ OverlapIdle
SpecRetry == InitRetry /\ [][NextChain]_vars

\* No AgentChain takes part.
ChainIdle == ChainInit({[n |-> 0, max_retries |-> 0, pass_full_context |-> FALSE, stop_on_error |-> FALSE]})

InitPar == ParInit(ParallelConfigs) /\ ChainIdle /\ RouterIdle /\ EvalIdle /\ OverlapIdle
SpecPar == InitPar /\ [][NextPar]_vars

\* ParallelAgents under the scheduling of the event loop: a task that can
\* pass the gate does, an admitted call completes, and execute resumes once
\* what it awaits is available. The aggregation plays no part in it.
InitParLive ==
    /\ ParInit({c \in ParallelConfigs : c.aggregation = "first"})
    /\ ChainIdle /\ RouterIdle /\ EvalIdle /\ OverlapIdle
SpecParLive ==
    /\ InitParLive
    /\ [][NextPar]_vars
    /\ WF_parVars(ParExecute)
    /\ WF_parVars(ParAdmit)
    /\ WF_parVars(ParWait)
    /\ WF_parVars(ParComplete)
    /\ WF_parVars(ParReturn)

\* Routers of up to MaxRouterAgents agents with every kind of rule, serving
\* one request.
InitRoute ==
    /\ RouterInit(RouterConfigs(0..MaxRouterAgents, RuleLists, RoutingStrategies,
                                {NoDefault, UnknownAgentName, RouterAgentName(2)}),
                  {[calls |-> 1, inputs |-> RouterInputs, contexts |-> RouterContexts]})
    /\ ChainIdle /\ ParIdle /\ EvalIdle /\ OverlapIdle
SpecRoute == InitRoute /\ [][NextRouter]_vars

\* Routers serving up to MaxCalls requests one after the other: load-balanced
\* ones, and adaptive ones where some agents have a rule that does not match.
InitStats ==
    /\ RouterInit(RouterConfigs(1..MaxRouterAgents, {<<>>}, {"load_balanced"}, {NoDefault})
                    \cup RouterConfigs(1..MaxRouterAgents, {<<>>, <<PatternRule>>}, {"adaptive"},
                                       {NoDefault}),
                  {[calls |-> MaxCalls, inputs |-> {<<"hi">>}, contexts |-> {EmptyContext}]})
    /\ ChainIdle /\ ParIdle /\ EvalIdle /\ OverlapIdle
SpecStats == InitStats /\ [][NextRouter]_vars

\* Load-balanced routers serving up to MaxCalls requests, with a caller that
\* reads the stats in between.
InitObserve ==
    /\ RouterInit(RouterConfigs(1..MaxRouterAgents, {<<>>}, {"load_balanced"}, {NoDefault}),
                  {[calls |-> MaxCalls, inputs |-> {<<"hi">>}, contexts |-> {EmptyContext}]})
    /\ ChainIdle /\ ParIdle /\ EvalIdle /\ OverlapIdle
SpecObserve == InitObserve /\ [][NextObserve]_vars

\* Load-balanced and adaptive routers of up to as many agents as there are
\* calls, on which up to MaxOverlap route calls are in progress at once, each
\* resuming when its request completes.
InitOverlap ==
    /\ RouterInit(RouterConfigs(1..MaxOverlap, {<<>>}, {"load_balanced", "adaptive"},
                                {NoDefault}),
                  {[calls |-> MaxOverlap, inputs |-> {<<"hi">>}, contexts |-> {EmptyContext}]})
    /\ ov_calls = [c \in 1..MaxOverlap |-> NoRouteCall]
    /\ ChainIdle /\ ParIdle /\ EvalIdle
SpecOverlap == InitOverlap /\ [][NextOverlap]_vars

\* Evaluators of up to MaxMetrics metrics and MaxEvaluators custom evaluators.
InitEval ==
    /\ EvalInit(EvaluatorConfigs(SeqsUpTo(PlainMetrics \cup {CustomMetric}, MaxMetrics),
                                 0..MaxEvaluators))
    /\ ChainIdle /\ ParIdle /\ RouterIdle /\ OverlapIdle
SpecEval == InitEval /\ [][NextEval]_vars

\* Evaluators with the judge enabled, on which evaluate_with_llm is called up
\* to MaxJudgeCalls times, before, during and after evaluate.
InitJudge ==
    /\ EvalInit({ c \in EvaluatorConfigs(SeqsUpTo(PlainMetrics \cup {CustomMetric}, MaxMetrics),
                                         0..MaxEvaluators) : c.use_llm_judge })
    /\ ChainIdle /\ ParIdle /\ RouterIdle /\ OverlapIdle
SpecJudge == InitJudge /\ [][NextJudge]_vars

\* ================================================================== claims
\* ------------------------------------------------------------------ ParallelAgents

\* C1: in exhaustive and in fail-fast mode alike, the number of agent calls
\* in flight never exceeds max_concurrent (the slots not in use are those
\* the semaphore holds and those handed to tasks waking from acquire), and a
\* queued task goes in flight only when fewer than max_concurrent calls are
\* in flight.
C1_BoundedConcurrency ==
    /\ [](/\ Cardinality(InFlight) <= par_cfg.max_concurrent
          /\ par_pc # "idle" => par_sem + Cardinality(par_woken)
                                    = par_cfg.max_concurrent - Cardinality(InFlight))
    /\ [][\A i \in DOMAIN par_task :
            (par_task[i] = "queued" /\ par_task'[i] = "inflight")
              => Cardinality(InFlight) < par_cfg.max_concurrent]_vars

\* A full gate with a task waiting in acquire behind it, after a slot was
\* released and taken again, in fail-fast mode.
C1_Witness ==
    /\ par_cfg.fail_fast
    /\ par_cfg.max_concurrent >= 1
    /\ Cardinality(InFlight) = par_cfg.max_concurrent
    /\ \E i \in DOMAIN par_task : par_task[i] = "queued" /\ Waits(par_waiters, i)
    /\ \E i \in DOMAIN par_task : par_task[i] = "done"

\* C2 (as claimed): in fail-fast mode failed calls are skipped: the result
\* list holds no failed outcome, it holds a successful outcome and success
\* is true once any agent call has succeeded, and it is empty when every
\* agent call failed.
C2_FailFastFirstSuccess ==
    (par_pc = "returned" /\ par_cfg.fail_fast) =>
        /\ \A k \in DOMAIN par_ret.results : par_ret.results[k].success
        /\ (GatherDone(par_task) /\ \E i \in DOMAIN par_outcome : par_outcome[i].success)
             => (par_ret.results # <<>> /\ par_ret.success)
        /\ (GatherDone(par_task) /\ \A i \in DOMAIN par_outcome : ~ par_outcome[i].success)
             => par_ret.results = <<>>

\* C3: in exhaustive mode execute returns only when the call of every agent
\* has completed, and the result list then holds, for each configured agent,
\* exactly the outcome of that agent's call, failed or not.
C3_ExhaustiveAwaitsAll ==
    (par_pc = "returned" /\ ~ par_cfg.fail_fast) =>
        /\ \A i \in DOMAIN par_task : par_task[i] = "done"
        /\ Len(par_ret.results) = par_cfg.n
        /\ \A i \in 0..(par_cfg.n - 1) :
             /\ par_ret.results[i + 1] = par_outcome[i]
             /\ par_ret.results[i + 1].agent = AgentName(i)

\* An exhaustive execute that returned with a failed and a successful agent.
C3_Witness ==
    /\ par_pc = "returned"
    /\ ~ par_cfg.fail_fast
    /\ \E i, j \in DOMAIN par_outcome :
         /\ par_outcome[i].kind = "dict" /\ par_outcome[j].kind = "dict"
         /\ ~ par_outcome[i].success /\ par_outcome[j].success
         /\ Len(par_order) >= 2 /\ par_order[1] = i

\* ------------------------------------------------------------------ AgentChain

\* The entries of a step list that carry an error.
ErrorEntries(steps) == { k \in DOMAIN steps : steps[k].error # Missing }

\* The index of the first entry of a non-empty set of entries.
FirstOf(entries) == CHOOSE k \in entries : \A j \in entries : k <= j

\* C4 (as claimed): with stop_on_error, the first failing step, at index i,
\* halts the chain: the loop went no further than i, the step list has
\* exactly i+1 entries and the last of them carries the error.
C4_StopOnErrorHalts ==
    (ch_pc = "returned" /\ ch_cfg.stop_on_error /\ ErrorEntries(ch_ret.steps) # {}) =>
        LET i == ch_ret.steps[FirstOf(ErrorEntries(ch_ret.steps))].step IN
        /\ ch_idx = i
        /\ Len(ch_ret.steps) = i + 1
        /\ ch_ret.steps[Len(ch_ret.steps)].error # Missing

\* C5 (as claimed): without stop_on_error a chain of N steps returns a step
\* list of exactly N entries, with step indices 0..N-1 in that order.
C5_VisitsAllSteps ==
    (ch_pc = "returned" /\ ~ ch_cfg.stop_on_error) =>
        /\ Len(ch_ret.steps) = ch_cfg.n
        /\ \A k \in DOMAIN ch_ret.steps : ch_ret.steps[k].step = k - 1

\* Step ch_idx is under way (its input was prepared) right after step
\* ch_idx - 1 failed, in a chain that continues on error.
AfterFailedStep ==
    /\ ch_pc \in {"post", "sleep"}
    /\ ~ ch_cfg.stop_on_error
    /\ ch_results # <<>>
    /\ ch_results[Len(ch_results)].error # Missing
    /\ ch_results[Len(ch_results)].step = ch_idx - 1

\* C6 (as claimed): the input to the step after a failed one is
\* "previous step failed: " followed by the reason.
C6_NextInputLowerCase ==
    AfterFailedStep =>
        ch_agent_input = <<"previous step failed: ">> \o ch_results[Len(ch_results)].error

\* C6 (amended): after a failed step the running input is "Previous step
\* failed: " (capital P) followed by the reason, and the input sent to the
\* next step is that string, substituted into the step's input template when
\* it has one.
C6_NextInputAfterFailure ==
    AfterFailedStep =>
        LET synthetic == <<"Previous step failed: ">> \o ch_results[Len(ch_results)].error IN
        /\ ch_input = synthetic
        /\ ch_agent_input =
             IF ch_agent.input_template = NoTemplate THEN synthetic
             ELSE FormatFrom(ch_agent.input_template, 1, synthetic, ch_context)

\* A step with an input template is under way after a failed step.
C6_Witness ==
    /\ AfterFailedStep
    /\ ch_agent.input_template # NoTemplate
    /\ ch_results[Len(ch_results)].error \in CallErrors

\* The output of the last entry that carries no error, "" when there is none.
RECURSIVE LastSuccessfulOutput(_)
LastSuccessfulOutput(steps) ==
    IF steps = <<>> THEN <<>>
    ELSE IF steps[Len(steps)].error = Missing THEN steps[Len(steps)].output
    ELSE LastSuccessfulOutput(SubSeq(steps, 1, Len(steps) - 1))

\* C7 (as claimed): final_output is the output of the last step that
\* succeeded, also when later steps failed.
C7_FinalIsLastSuccessful ==
    ch_pc = "returned" => ch_ret.final_output = LastSuccessfulOutput(ch_ret.steps)

\* C7 (amended): final_output is the output of the last entry of the step
\* list when that entry is a successful step result, and the empty string
\* when the last entry carries an error or the list is empty.
C7_FinalIsLastEntry ==
    ch_pc = "returned" =>
        ch_ret.final_output =
            IF ch_ret.steps = <<>> THEN <<>>
            ELSE IF ch_ret.steps[Len(ch_ret.steps)].error # Missing THEN <<>>
            ELSE ch_ret.steps[Len(ch_ret.steps)].output

\* A chain returned whose first step succeeded and whose last step failed.
C7_Witness ==
    /\ ch_pc = "returned"
    /\ Len(ch_ret.steps) >= 2
    /\ ch_ret.steps[1].error = Missing
    /\ ch_ret.steps[1].output # <<>>
    /\ ch_ret.steps[Len(ch_ret.steps)].error # Missing
    /\ ch_ret.final_output = <<>>

\* C8: success is true exactly when no entry of the returned step list
\* carries an error.
C8_SuccessIffNoError ==
    ch_pc = "returned" =>
        (ch_ret.success <=> \A k \in DOMAIN ch_ret.steps : ch_ret.steps[k].error = Missing)

\* A chain halted by stop_on_error after a successful step.
C8_Witness ==
    /\ ch_pc = "returned"
    /\ ch_cfg.stop_on_error
    /\ Len(ch_ret.steps) = 2
    /\ ch_ret.steps[1].error = Missing
    /\ ch_ret.steps[2].error # Missing
    /\ ch_cfg.n > ch_idx + 1
    /\ ~ ch_ret.success

\* The call of the step never succeeded: every request posted failed.
NeverSucceeded == ch_call.called /\ ch_call.posts = Len(ch_call.errors)

\* C9 (as claimed): a call that never succeeds is retried max_retries times,
\* that is max_retries + 1 requests with max_retries waits 1, 2, 4, ...
C9_RetriesMaxRetriesTimes ==
    (ch_pc = "returned" /\ NeverSucceeded /\ ch_cfg.max_retries >= 1) =>
        /\ ch_call.posts = ch_cfg.max_retries + 1
        /\ Len(ch_call.sleeps) = ch_cfg.max_retries
        /\ \A k \in DOMAIN ch_call.sleeps : ch_call.sleeps[k] = 2 ^ (k - 1)

\* C9 (amended): a call that never succeeds makes max_retries requests in
\* all (max_retries - 1 retries); the request after failed attempt number
\* attempt is made only after a wait of 2^attempt, so the waits are
\* 1, 2, 4, ..., 2^(max_retries - 2), and none follows the last attempt.
C9_AttemptsAndBackoff ==
    /\ ch_pc = "post" => (ch_call.posts = ch_attempt /\ Len(ch_call.sleeps) = ch_attempt)
    /\ \A k \in DOMAIN ch_call.sleeps : ch_call.sleeps[k] = 2 ^ (k - 1)
    /\ (ch_pc = "returned" /\ NeverSucceeded) =>
          /\ ch_call.posts = ch_cfg.max_retries
          /\ Len(ch_call.sleeps) = IF ch_cfg.max_retries >= 1 THEN ch_cfg.max_retries - 1 ELSE 0

\* A call of three failed attempts returned, after waits of 1 and 2.
C9_Witness ==
    /\ ch_pc = "returned"
    /\ NeverSucceeded
    /\ ch_cfg.max_retries = 3
    /\ ch_call.posts = 3
    /\ ch_call.sleeps = <<1, 2>>

\* C10: when every attempt of a call fails, the error recorded for the step
\* and returned by execute is the failure of the last attempt.
C10_LastFailureSurfaced ==
    (ch_pc = "returned" /\ NeverSucceeded /\ ch_call.posts >= 1) =>
        /\ ch_ret.steps # <<>>
        /\ ch_ret.steps[Len(ch_ret.steps)].error = ch_call.errors[Len(ch_call.errors)]
        /\ ~ ch_ret.success

\* A call whose first and last attempts failed differently.
C10_Witness ==
    /\ ch_pc = "returned"
    /\ NeverSucceeded
    /\ ch_call.posts >= 2
    /\ ch_call.errors[1] # ch_call.errors[Len(ch_call.errors)]
    /\ ch_ret.steps[Len(ch_ret.steps)].error = ch_call.errors[Len(ch_call.errors)]

\* ------------------------------------------------------------------ AgentRouter
\* The requests of the route call in progress (or just returned) posted to the
\* agent at position i.
Invocations(i) == Cardinality({ k \in DOMAIN rt_attempts : rt_attempts[k].agent = i })

\* C11: every agent attempt of a route call, fallback attempts that fail
\* included, is recorded: each agent's total_requests has grown by exactly the
\* number of requests the call posted to it.
C11_StatsCountEveryAttempt ==
    \A i \in DOMAIN rt_cfg.agents :
        TotalRequests(rt_stats, rt_cfg.agents[i].name)
          = TotalRequests(rt_base, rt_cfg.agents[i].name) + Invocations(i)

\* C12: for every agent with total_requests > 0, success_rate is
\* successful_requests / total_requests, and total_requests is
\* successful_requests + failed_requests.
C12_SuccessRateInvariant ==
    \A name \in DOMAIN rt_stats :
        rt_stats[name].total_requests > 0 =>
            /\ rt_stats[name].success_rate.d > 0
            /\ rt_stats[name].success_rate.n * rt_stats[name].total_requests
                 = rt_stats[name].successful_requests * rt_stats[name].success_rate.d
            /\ rt_stats[name].total_requests
                 = rt_stats[name].successful_requests + rt_stats[name].failed_requests

\* An agent has both answered and failed.
C12_Witness ==
    \E name \in DOMAIN rt_stats :
        /\ rt_stats[name].successful_requests > 0
        /\ rt_stats[name].failed_requests > 0
        /\ rt_stats[name].total_requests > 2

LastOf(attempts) == attempts[Len(attempts)]

\* C13: after a failed primary request with fallback enabled, the fallback
\* requests go to the other agents in list order, each at most once, and stop
\* at the first answer; the result is then successful, names the agent that
\* answered, is tagged as a fallback and names the agent that failed.
C13_FallbackInOrder ==
    (rt_cfg.enable_fallback /\ rt_attempts # <<>> /\ rt_attempts[1].error # Missing) =>
        /\ rt_attempts[1].agent = rt_selected
        /\ \A k \in 2..Len(rt_attempts) :
             rt_attempts[k].agent = (IF k - 1 < rt_selected THEN k - 1 ELSE k)
        /\ \A k \in 1..(Len(rt_attempts) - 1) : rt_attempts[k].error # Missing
        /\ rt_pc = "fallback" => Len(rt_attempts) < Len(rt_cfg.agents)
        /\ rt_pc = "returned" =>
             IF LastOf(rt_attempts).error = Missing
             THEN /\ rt_ret.success = TRUE
                  /\ rt_ret.agent = rt_cfg.agents[LastOf(rt_attempts).agent].name
                  /\ rt_ret.fallback = TRUE
                  /\ rt_ret.failed_agent = rt_cfg.agents[rt_selected].name
                  /\ rt_ret.agent # rt_ret.failed_agent
             ELSE Len(rt_attempts) = Len(rt_cfg.agents)

\* The second agent failed, then the first, and the third answered.
C13_Witness ==
    /\ rt_pc = "returned"
    /\ rt_cfg.enable_fallback
    /\ rt_selected = 2
    /\ Len(rt_attempts) = 3
    /\ rt_attempts[3].error = Missing
    /\ "fallback" \in DOMAIN rt_ret

\* C14: when the primary request and every fallback request fail, or the
\* primary request fails with fallback disabled, route returns the dict of
\* success False with the name and the error of the primary attempt, and
\* nothing about the fallback attempts.
C14_PrimaryFailureReported ==
    (rt_pc = "returned" /\ rt_attempts # <<>> /\ LastOf(rt_attempts).error # Missing) =>
        rt_ret = [success |-> FALSE,
                  agent |-> rt_cfg.agents[rt_attempts[1].agent].name,
                  error |-> rt_attempts[1].error,
                  input |-> rt_input]

\* The primary agent and two fallback agents failed, the last one with another
\* error than the primary agent.
C14_Witness ==
    /\ rt_pc = "returned"
    /\ Len(rt_attempts) = 3
    /\ rt_attempts[3].error # Missing
    /\ rt_attempts[3].error # rt_attempts[1].error
    /\ rt_ret.success = FALSE

\* The agent at position i has a routing rule matching the request in
\* progress, by its pattern, its keywords, its context key or its length range.
HasMatchingRule(i) ==
    \E k \in DOMAIN rt_cfg.agents[i].routing_rules :
        LET rule == rt_cfg.agents[i].routing_rules[k] IN
        \/ "pattern" \in DOMAIN rule /\ PatternMatches(rule, rt_input)
        \/ "keywords" \in DOMAIN rule /\ KeywordMatches(rule, rt_input)
        \/ "context_key" \in DOMAIN rule /\ ContextMatches(rule, rt_context)
        \/ "min_length" \in DOMAIN rule /\ "max_length" \in DOMAIN rule
             /\ LengthMatches(rule, rt_input)

\* The agents named as config.default_agent.
NamedDefault == { i \in DOMAIN rt_cfg.agents : rt_cfg.agents[i].name = rt_cfg.default_agent }

\* C15: under RULE_BASED the agent selected is the first in list order with a
\* matching rule; when none matches it is the agent named as default, or the
\* first agent of the list when no default is configured.
C15_RuleBasedFirstMatch ==
    (rt_cfg.strategy = "rule_based" /\ rt_pc # "idle") =>
        IF \E i \in DOMAIN rt_cfg.agents : HasMatchingRule(i)
        THEN /\ rt_selected \in DOMAIN rt_cfg.agents
             /\ HasMatchingRule(rt_selected)
             /\ \A j \in 1..(rt_selected - 1) : ~ HasMatchingRule(j)
        ELSE IF rt_cfg.default_agent # NoDefault
        THEN IF NamedDefault # {} THEN rt_selected \in NamedDefault ELSE rt_selected = NoAgent
        ELSE rt_selected = (IF rt_cfg.agents # <<>> THEN 1 ELSE NoAgent)

\* The first agent has a rule that does not match, the second and the third
\* have rules of different kinds that match.
C15_Witness ==
    /\ rt_cfg.strategy = "rule_based" /\ rt_pc # "idle"
    /\ Len(rt_cfg.agents) = 3
    /\ rt_cfg.agents[1].routing_rules # <<>> /\ ~ HasMatchingRule(1)
    /\ HasMatchingRule(2) /\ HasMatchingRule(3)
    /\ rt_cfg.agents[2].routing_rules # rt_cfg.agents[3].routing_rules
    /\ rt_selected = 2

\* total_requests of the agent at position i when route was called, 0 for an
\* agent not seen.
LoadAtCall(i) ==
    IF rt_cfg.agents[i].name \in DOMAIN rt_base
    THEN rt_base[rt_cfg.agents[i].name].total_requests
    ELSE 0

\* C16: under LOAD_BALANCED the agent selected has the fewest recorded
\* requests, an agent never seen counting as zero, and is the first in list
\* order of those with the fewest.
C16_LoadBalancedFewest ==
    (rt_cfg.strategy = "load_balanced" /\ rt_pc # "idle" /\ rt_cfg.agents # <<>>) =>
        /\ rt_selected \in DOMAIN rt_cfg.agents
        /\ \A j \in DOMAIN rt_cfg.agents : LoadAtCall(rt_selected) <= LoadAtCall(j)
        /\ \A j \in 1..(rt_selected - 1) : LoadAtCall(rt_selected) < LoadAtCall(j)

\* The first agent has served a request, the second and the third have not.
C16_Witness ==
    /\ rt_cfg.strategy = "load_balanced" /\ rt_pc # "idle"
    /\ Len(rt_cfg.agents) = 3
    /\ LoadAtCall(1) > 0 /\ LoadAtCall(2) = 0 /\ LoadAtCall(3) = 0
    /\ rt_selected = 2

\* C17: under ADAPTIVE the candidates are exactly the agents with a matching
\* rule of any kind (an agent without rules counting as matching), and the
\* whole list when there is none.
C17_AdaptiveCandidates ==
    (rt_cfg.strategy = "adaptive" /\ rt_pc # "idle") =>
        LET matching == { i \in DOMAIN rt_cfg.agents :
                            rt_cfg.agents[i].routing_rules = <<>> \/ HasMatchingRule(i) }
        IN  { rt_candidates[k] : k \in DOMAIN rt_candidates }
              = (IF matching # {} THEN matching ELSE DOMAIN rt_cfg.agents)

\* The score of the agent at position i from the stats route was called with.
ScoreAtCall(i) == ScoreOfAgent(rt_cfg, rt_base, i)

\* C18: under ADAPTIVE the agent selected is a candidate of the highest score
\* 0.7 * success_rate + 0.3 / (avg_duration + 1), with 0.5 and 10 for an agent
\* without history, and the first in list order of those of the highest score.
C18_AdaptiveMaxScore ==
    (rt_cfg.strategy = "adaptive" /\ rt_pc # "idle" /\ rt_cfg.agents # <<>>) =>
        /\ \E k \in DOMAIN rt_candidates : rt_candidates[k] = rt_selected
        /\ \A k \in DOMAIN rt_candidates :
             /\ ~ RatLess(ScoreAtCall(rt_selected), ScoreAtCall(rt_candidates[k]))
             /\ rt_candidates[k] < rt_selected =>
                  RatLess(ScoreAtCall(rt_candidates[k]), ScoreAtCall(rt_selected))
        /\ \A i \in DOMAIN rt_cfg.agents :
             rt_cfg.agents[i].name \notin DOMAIN rt_base =>
                 RatEq(ScoreAtCall(i), Rat(7 * 11 + 3 * 2, 10 * 2 * 11))

\* The candidates are the first agent, which has only failed, and the third,
\* which has no history; the second, which is no candidate, has answered.
C18_Witness ==
    /\ rt_cfg.strategy = "adaptive" /\ rt_pc # "idle"
    /\ rt_candidates = <<1, 3>>
    /\ rt_cfg.agents[1].name \in DOMAIN rt_base
    /\ rt_cfg.agents[2].name \in DOMAIN rt_base
    /\ rt_base[rt_cfg.agents[2].name].successful_requests > 0
    /\ rt_cfg.agents[3].name \notin DOMAIN rt_base
    /\ rt_selected = 3

\* C19: when no agent is selected (always so with an empty agent list, and
\* under the rule strategies when no rule matches and the default names no
\* agent), route returns success False with an error text, posts no request
\* and leaves the stats as they were.
C19_NoAgentIsFailureResult ==
    /\ (rt_pc # "idle" /\ rt_cfg.agents = <<>>) => rt_selected = NoAgent
    /\ ( /\ rt_pc # "idle"
         /\ rt_cfg.strategy \in {"rule_based", "semantic"}
         /\ ~ \E i \in DOMAIN rt_cfg.agents : HasMatchingRule(i)
         /\ rt_cfg.default_agent # NoDefault
         /\ NamedDefault = {} ) => rt_selected = NoAgent
    /\ (rt_pc # "idle" /\ rt_selected = NoAgent) =>
         /\ rt_pc = "returned"
         /\ rt_ret.success = FALSE
         /\ rt_ret.error = NoSuitableAgent
         /\ rt_attempts = <<>>
         /\ rt_stats = rt_base

\* Agents are configured, none has a matching rule and the default names none.
C19_Witness ==
    /\ rt_pc = "returned" /\ rt_selected = NoAgent
    /\ Len(rt_cfg.agents) > 1
    /\ rt_cfg.default_agent = UnknownAgentName
    /\ \E i \in DOMAIN rt_cfg.agents : rt_cfg.agents[i].routing_rules # <<>>

\* ------------------------------------------------------------------ ParallelAgents, continued
\* C20: whatever the aggregation strategy, execute returns success True
\* exactly when an outcome of its result list is successful (in exhaustive
\* mode: when the call of some agent succeeded); when none is, the aggregated
\* value is None and success is False.
C20_SuccessIffSomeOutcome ==
    par_pc = "returned" =>
        /\ par_ret.success \in BOOLEAN
        /\ par_ret.success <=> \E k \in DOMAIN par_ret.results : par_ret.results[k].success
        /\ ~ par_cfg.fail_fast =>
             (par_ret.success <=> \E i \in 0..(par_cfg.n - 1) : par_outcome[i].success)
        /\ par_ret.success <=> par_ret.aggregated # None

\* An exhaustive execute of several agents returned after all of them failed.
C20_Witness ==
    /\ par_pc = "returned" /\ ~ par_cfg.fail_fast
    /\ par_cfg.n >= 2
    /\ \A i \in 0..(par_cfg.n - 1) : ~ par_outcome[i].success
    /\ par_ret.success = FALSE /\ par_ret.aggregated = None

\* The successful outcomes of the result list execute returned, in list order.
ReturnedSuccessful == SelectSeq(par_ret.results, LAMBDA r : r.success)

\* How many successful outcomes returned hold the output.
GroupSize(output) ==
    Cardinality({ k \in DOMAIN ReturnedSuccessful : ReturnedSuccessful[k].output = output })

\* The place of the first successful outcome holding the output.
FirstSeen(output) ==
    CHOOSE k \in DOMAIN ReturnedSuccessful :
        /\ ReturnedSuccessful[k].output = output
        /\ \A j \in 1..(k - 1) : ReturnedSuccessful[j].output # output

\* C21: VOTE returns the output of the largest group of identical successful
\* outputs, the group met first among the largest; votes is the size of that
\* group and total the number of successful outcomes.
C21_VoteMostCommonFirst ==
    (par_pc = "returned" /\ par_cfg.aggregation = "vote" /\ ReturnedSuccessful # <<>>) =>
        /\ par_ret.aggregated.total = Len(ReturnedSuccessful)
        /\ GroupSize(par_ret.aggregated.output) > 0
        /\ par_ret.aggregated.votes = GroupSize(par_ret.aggregated.output)
        /\ \A k \in DOMAIN ReturnedSuccessful :
             LET other == ReturnedSuccessful[k].output IN
             /\ GroupSize(other) <= par_ret.aggregated.votes
             /\ (GroupSize(other) = par_ret.aggregated.votes /\ other # par_ret.aggregated.output)
                  => FirstSeen(par_ret.aggregated.output) < FirstSeen(other)

\* The outputs A, B, A give A with 2 votes of 3.
C21_Witness ==
    /\ par_pc = "returned" /\ par_cfg.aggregation = "vote"
    /\ Len(ReturnedSuccessful) = 3
    /\ ReturnedSuccessful[1].output = <<"A">>
    /\ ReturnedSuccessful[2].output = <<"B", "B">>
    /\ ReturnedSuccessful[3].output = <<"A">>
    /\ par_ret.aggregated.output = <<"A">>
    /\ par_ret.aggregated.votes = 2
    /\ par_ret.aggregated.total = 3

\* ------------------------------------------------------------------ AgentEvaluator
\* 0.0 <= score <= 1.0
InUnitInterval(score) == ~ RatLess(score, Rat(0, 1)) /\ ~ RatLess(Rat(1, 1), score)

\* C22: every score of the result of evaluate, and the overall score, lies in
\* [0.0, 1.0].
C22_ScoresInUnitInterval ==
    ev_pc = "returned" =>
        /\ \A name \in DOMAIN ev_ret.scores : InUnitInterval(ev_ret.scores[name])
        /\ InUnitInterval(ev_ret.overall_score)

\* The scores evaluate_with_llm can return.
JudgeScores == { JudgeScore(score_text) : score_text \in JudgeResponses } \cup {JudgeErrorScore}

\* C23: with the judge enabled, evaluate does not raise, and the score it
\* returns for a metric other than CUSTOM is the clamped number of the judge's
\* answer, or 0.5.
C23_JudgeScoresMetric ==
    (ev_cfg.use_llm_judge /\ \E k \in DOMAIN ev_cfg.metrics : ev_cfg.metrics[k] # CustomMetric) =>
        /\ ev_pc # "raised"
        /\ ev_pc = "returned" =>
             \A k \in DOMAIN ev_cfg.metrics :
                 ev_cfg.metrics[k] # CustomMetric =>
                     /\ ev_cfg.metrics[k] \in DOMAIN ev_ret.scores
                     /\ \E score \in JudgeScores : RatEq(ev_ret.scores[ev_cfg.metrics[k]], score)

\* C24: the overall score is the arithmetic mean of the scores of the result
\* (0.0 when there is none), and passed is true exactly when the overall
\* score is at least the threshold.
C24_OverallIsMeanAndPassed ==
    ev_pc = "returned" =>
        /\ ev_ret.scores = ev_scores
        /\ IF DOMAIN ev_ret.scores = {}
           THEN ev_ret.overall_score.n = 0
           ELSE ev_ret.overall_score.n * Cardinality(DOMAIN ev_ret.scores) * SumScores(ev_ret.scores).d
                  = SumScores(ev_ret.scores).n * ev_ret.overall_score.d
        /\ ev_ret.overall_score.d > 0
        /\ ev_ret.passed <=>
             (ev_ret.overall_score.n * ev_cfg.threshold.d >= ev_cfg.threshold.n * ev_ret.overall_score.d)

\* Two different scores whose mean is the threshold itself: passed.
C24_Witness ==
    /\ ev_pc = "returned"
    /\ Cardinality(DOMAIN ev_ret.scores) = 2
    /\ \E a, b \in DOMAIN ev_ret.scores : ~ RatEq(ev_ret.scores[a], ev_ret.scores[b])
    /\ RatEq(ev_ret.overall_score, ev_cfg.threshold)
    /\ ev_ret.passed = TRUE

\* C25: a custom evaluator that raises is scored 0.0, and evaluate goes on and
\* returns without raising.
C25_CustomFailureScoredZero ==
    ev_raised # {} =>
        /\ \A name \in ev_raised : RatEq(ev_scores[name], Rat(0, 1))
        /\ ev_pc # "raised"
        /\ ev_pc = "returned" => \A name \in ev_raised : RatEq(ev_ret.scores[name], Rat(0, 1))

\* ------------------------------------------------------------------ AgentRouter, continued
\* failed_requests of the agent at position i, 0 for an agent not seen.
FailedRequests(stats, i) ==
    IF rt_cfg.agents[i].name \in DOMAIN stats
    THEN stats[rt_cfg.agents[i].name].failed_requests
    ELSE 0

\* C26: a failed request to an agent is retried before the agent is recorded
\* as failed: an agent recorded as failed by a route call has been sent more
\* than one request by it.
C26_RetriedBeforeFailure ==
    \A i \in DOMAIN rt_cfg.agents :
        FailedRequests(rt_stats, i) > FailedRequests(rt_base, i) => Invocations(i) > 1

\* C27: what get_stats returned is a snapshot: while the caller holds it, a
\* step of route does not change what it reads, and a change the caller makes
\* to it does not change the stats of the router.
C27_GetStatsIsSnapshot ==
    [][ (rt_held /\ rt_held') =>
          IF rt_attempts' # rt_attempts
          THEN ReturnedStats' = ReturnedStats
          ELSE rt_stats' = rt_stats ]_vars

\* ------------------------------------------------------------------ ParallelAgents, fail-fast stragglers
\* The first call to complete succeeded.
FirstSuccessObserved == par_order # <<>> /\ par_outcome[Head(par_order)].success

\* The calls not yet completed.
Outstanding == { i \in DOMAIN par_task : par_task[i] # "done" }

\* C28: in fail-fast mode execute can return as soon as the first success is
\* observed, whatever calls are outstanding; returning changes no task, the
\* tasks in flight can still complete and the queued ones still start
\* afterwards, and the result returned holds the first outcome alone and
\* never changes.
C28_StragglersLeftRunning ==
    /\ [] ( par_cfg.fail_fast =>
              /\ (par_pc = "waiting" /\ FirstSuccessObserved) => ENABLED ParReturn
              /\ (par_pc = "returned" /\ FirstSuccessObserved) =>
                   /\ par_ret.results = << par_outcome[Head(par_order)] >>
                   /\ InFlight # {} => ENABLED ParComplete
                   /\ (\E i \in DOMAIN par_task : par_task[i] = "queued")
                        /\ (par_sem > 0 \/ par_woken # {})
                        => ENABLED ParAdmit )
    /\ [][ par_cfg.fail_fast =>
             /\ (par_pc = "waiting" /\ par_pc' = "returned") => par_task' = par_task
             /\ par_pc = "returned" => par_ret' = par_ret ]_vars

\* execute has returned the first success while a call is in flight and
\* another is queued at the gate.
C28_Witness ==
    /\ par_pc = "returned" /\ par_cfg.fail_fast
    /\ FirstSuccessObserved
    /\ par_ret.success = TRUE
    /\ Len(par_ret.results) = 1
    /\ \E i, j \in Outstanding : par_task[i] = "inflight" /\ par_task[j] = "queued"

\* The request of step ch_idx succeeds in this step of the chain: the result
\* _execute_agent returns is recorded with the call.
StepSucceeds == ch_pc = "post" /\ ch_call'.result # NoResult

\* The iteration of a step whose request succeeded ends without raising:
\* one entry, the step_result, was appended.
StepCompletes == StepSucceeds /\ Len(ch_results') = Len(ch_results) + 1

\* C29 (as claimed): after a successful step the next running input is the
\* raw output field when the result has one, else the named field, else the
\* value of the extraction function, and the output text when none applies.
C29_RawOutputFirst ==
    [][ StepCompletes =>
          LET result == ch_call'.result
              extractor == ch_agent.output_extractor
          IN  IF result.content # Missing THEN ch_input' = result.content
              ELSE IF extractor = "summary" /\ result.summary # Missing
                   THEN ch_input' = result.summary
              ELSE IF extractor = "callable" THEN ch_input' \in ExtractorReturns
              ELSE ch_input' = OutputOf(result) ]_vars

\* C29 (amended): after a successful step the next running input is the
\* value of the extraction function when output_extractor is a callable;
\* else, when it is a field name, that field of the result, the result's
\* content when the field is absent and "" when both are; else the result's
\* content, and str(result) when the result has no content. When the
\* extraction function raises, the step is handled as a failed one: an error
\* entry follows the step's entry and the next input is the failure text.
C29_ExtractorFirst ==
    [][ StepSucceeds =>
          LET result == ch_call'.result
              extractor == ch_agent.output_extractor
          IN  /\ StepCompletes =>
                   IF extractor = "callable" THEN ch_input' \in ExtractorReturns
                   ELSE IF extractor = "summary"
                        THEN ch_input' = IF result.summary # Missing THEN result.summary
                                         ELSE IF result.content # Missing THEN result.content
                                         ELSE <<>>
                   ELSE ch_input' = IF result.content # Missing THEN result.content
                                    ELSE <<"str(result)">> \o result.summary
              /\ ~ StepCompletes =>
                   /\ extractor = "callable"
                   /\ Len(ch_results') = Len(ch_results) + 2
                   /\ ch_results'[Len(ch_results')].error = ExtractorError
                   /\ ch_input' = IF ch_cfg.stop_on_error THEN ch_input
                                  ELSE <<"Previous step failed: ">> \o ExtractorError ]_vars

\* A step with a field name as output_extractor has succeeded with a result
\* that holds both the field and a content, and the next running input is
\* the field, not the content.
C29_Witness ==
    /\ ch_pc \in {"loop", "returned"}
    /\ ch_call.result # NoResult
    /\ ch_agent.output_extractor = "summary"
    /\ ch_call.result.summary # Missing
    /\ ch_call.result.content # Missing
    /\ ch_input = ch_call.result.summary
    /\ ch_input # ch_call.result.content

\* The keys of a context that are names of steps of the chain.
StepKeys(context) ==
    { k \in DOMAIN context : \E i \in 0..(ch_cfg.n - 1) : k = StepName(i) }

\* The names of the steps that succeeded: they have an entry without an
\* error in the step list and none with one.
SucceededNames(steps) ==
    { StepName(steps[k].step) : k \in { j \in DOMAIN steps :
          /\ steps[j].error = Missing
          /\ ~ \E e \in ErrorEntries(steps) : steps[e].step = steps[j].step } }

\* C30 (as claimed): the context execute returns is the initial context
\* plus, with pass_full_context, one entry per successful step, keyed by the
\* step name and holding the step's result; a failed step adds or changes no
\* entry, and without pass_full_context the context never changes.
C30_ContextOfSuccessfulSteps ==
    /\ [] ( ch_pc = "returned" =>
              /\ StepKeys(ch_ret.context) =
                   IF ch_cfg.pass_full_context THEN SucceededNames(ch_ret.steps) ELSE {}
              /\ \A k \in DOMAIN ch_ret.steps :
                   StepName(ch_ret.steps[k].step) \in StepKeys(ch_ret.context) =>
                     ( ch_ret.steps[k].error = Missing =>
                         ch_ret.steps[k].output =
                           OutputOf(ch_ret.context[StepName(ch_ret.steps[k].step)]) ) )
    /\ [][ ch_pc # "idle" =>
             /\ \A k \in DOMAIN ch_context :
                  k \in DOMAIN ch_context' /\ ch_context'[k] = ch_context[k]
             /\ ch_context' # ch_context =>
                  /\ ch_cfg.pass_full_context
                  /\ StepSucceeds
                  /\ ch_context' = Put(ch_context, StepName(ch_idx), ch_call'.result) ]_vars

\* The input template of an agent config names a key the context lacks.
NamesAbsentKey(agent_config, context) ==
    \E i \in DOMAIN agent_config.input_template :
        /\ "slot" \in DOMAIN agent_config.input_template[i]
        /\ agent_config.input_template[i].slot # "input"
        /\ agent_config.input_template[i].slot \notin DOMAIN context

\* C31: a step whose input template names a key absent from the context
\* fails without a request: one error entry for the step is appended, the
\* earlier entries and the context are untouched, no request is posted, and
\* execute either returns a record with success false (stop_on_error, or the
\* last step) or goes on to the next step with the failure text as input.
C31_AbsentKeyIsStepFailure ==
    [][ (ch_pc = "loop" /\ NamesAbsentKey(ch_agent', ch_context)) =>
          /\ Len(ch_results') = Len(ch_results) + 1
          /\ SubSeq(ch_results', 1, Len(ch_results)) = ch_results
          /\ ch_results'[Len(ch_results')].error # Missing
          /\ ch_results'[Len(ch_results')].step = ch_idx
          /\ ch_call'.posts = 0
          /\ ~ ch_call'.called
          /\ ch_context' = ch_context
          /\ IF ch_cfg.stop_on_error \/ ch_idx + 1 >= ch_cfg.n
             THEN /\ ch_pc' = "returned"
                  /\ ch_ret'.success = FALSE
                  /\ ch_ret'.steps = ch_results'
                  /\ ch_idx' = ch_idx
             ELSE /\ ch_pc' = "loop"
                  /\ ch_idx' = ch_idx + 1
                  /\ ch_input' = <<"Previous step failed: ">>
                                   \o ch_results'[Len(ch_results')].error ]_vars

\* A chain with stop_on_error has returned after its first step failed on
\* the absent key "lang", with a later step never started and no request.
C31_Witness ==
    /\ ch_pc = "returned"
    /\ ch_cfg.stop_on_error
    /\ ch_cfg.n = 2
    /\ Len(ch_ret.steps) = 1
    /\ ch_ret.steps[1].error = KeyErrorText("lang")
    /\ ch_call.posts = 0
    /\ ~ ch_ret.success

\* C36 (as claimed): with max_retries <= 0 no request is made, every step
\* of the chain is recorded as an error entry and the chain reports success
\* false.
C36_EveryStepRecordedAsError ==
    (ch_cfg.max_retries <= 0) =>
        /\ ch_call.posts = 0
        /\ ch_pc = "returned" =>
             /\ Len(ch_ret.steps) = ch_cfg.n
             /\ \A k \in DOMAIN ch_ret.steps :
                  ch_ret.steps[k].error # Missing /\ ch_ret.steps[k].step = k - 1
             /\ ~ ch_ret.success

\* C36 (amended): with max_retries <= 0 no request is ever made and no
\* response obtained; every step the chain runs, all of them or only the
\* first under stop_on_error, is recorded as one error entry, so a chain
\* with at least one step reports success false with an empty final output;
\* a chain without steps reports success true.
C36_NoAttemptNoRequest ==
    (ch_cfg.max_retries <= 0) =>
        /\ ch_call.posts = 0
        /\ ch_call.result = NoResult
        /\ ch_pc \notin {"post", "sleep"}
        /\ \A k \in DOMAIN ch_results :
             /\ ch_results[k].error # Missing
             /\ ch_results[k].output = Missing
             /\ ch_results[k].step = k - 1
        /\ ch_pc = "returned" =>
             /\ ch_ret.steps = ch_results
             /\ Len(ch_ret.steps) = IF ch_cfg.n = 0 THEN 0
                                    ELSE IF ch_cfg.stop_on_error THEN 1
                                    ELSE ch_cfg.n
             /\ ch_ret.success = (ch_cfg.n = 0)
             /\ ch_ret.final_output = <<>>

\* A chain of two steps with max_retries 0 that continues on error has
\* returned: both steps failed on the None result, without any request.
C36_Witness ==
    /\ ch_pc = "returned"
    /\ ch_cfg.max_retries = 0
    /\ ch_cfg.n = 2
    /\ ~ ch_cfg.stop_on_error
    /\ Len(ch_ret.steps) = 2
    /\ \A k \in DOMAIN ch_ret.steps : ch_ret.steps[k].error = NoneResultError
    /\ ch_call.called
    /\ ch_call.posts = 0
    /\ ~ ch_ret.success

\* The indices of the agents whose call succeeded.
SucceededAgents == { i \in DOMAIN par_outcome : par_outcome[i].kind = "dict" /\ par_outcome[i].success }

\* C32: in exhaustive mode the result list execute returns has one entry per
\* configured agent, the k-th entry being the outcome of the k-th agent,
\* whatever the order of completion; FIRST aggregation is the output of the
\* successful agent that comes first in the configuration.
C32_ResultsInConfigurationOrder ==
    (par_pc = "returned" /\ ~ par_cfg.fail_fast) =>
        /\ Len(par_ret.results) = par_cfg.n
        /\ \A k \in 1..par_cfg.n :
             /\ par_ret.results[k].agent = AgentName(k - 1)
             /\ par_ret.results[k] = par_outcome[k - 1]
        /\ (par_cfg.aggregation = "first" /\ SucceededAgents # {}) =>
             LET first == CHOOSE i \in SucceededAgents : \A j \in SucceededAgents : i <= j
             IN  par_ret.aggregated = [kind |-> "first", output |-> par_outcome[first].output]

\* An exhaustive execute with FIRST aggregation has returned; the call that
\* completed first succeeded and was not the first agent's, the first agent
\* succeeded later with another output, and that output is the aggregate.
C32_Witness ==
    /\ par_pc = "returned"
    /\ ~ par_cfg.fail_fast
    /\ par_cfg.aggregation = "first"
    /\ par_cfg.n >= 2
    /\ Head(par_order) # 0
    /\ par_outcome[Head(par_order)].success
    /\ par_outcome[0].success
    /\ par_outcome[0].output # par_outcome[Head(par_order)].output
    /\ par_ret.aggregated = [kind |-> "first", output |-> par_outcome[0].output]

\* C34: with max_concurrent >= 1, under the scheduling of SpecParLive, an
\* agent waiting at the gate is eventually admitted, an exhaustive execute
\* eventually returns, and a call that completes gives its slot back, to the
\* semaphore or to a task waiting in acquire.
C34_EveryAgentAdmitted ==
    /\ \A i \in 0..(MaxAgents - 1) :
         (par_cfg.max_concurrent >= 1 /\ i \in DOMAIN par_task /\ par_task[i] = "queued")
           ~> (i \in DOMAIN par_task /\ par_task[i] # "queued")
    /\ (par_cfg.max_concurrent >= 1 /\ ~ par_cfg.fail_fast /\ par_pc = "waiting")
         ~> (par_pc = "returned")
    /\ [][ \A i \in DOMAIN par_task :
             (par_task[i] = "inflight" /\ i \in DOMAIN par_task' /\ par_task'[i] = "done")
               => par_sem' + Cardinality(par_woken')
                    = par_sem + Cardinality(par_woken) + 1 ]_vars

\* An exhaustive execute with more agents than slots has returned, one of
\* the calls having failed: agents had to wait at the gate for a slot.
C34_Witness ==
    /\ par_pc = "returned"
    /\ ~ par_cfg.fail_fast
    /\ par_cfg.max_concurrent >= 1
    /\ par_cfg.n > par_cfg.max_concurrent
    /\ \E i \in DOMAIN par_outcome : ~ par_outcome[i].success
    /\ \A i \in DOMAIN par_task : par_task[i] = "done"

\* C35: a load-balanced router without fallback (its agents bear different
\* names) that serves its requests one after the other keeps the
\* total_requests of any two of its agents within 1 of each other, whatever
\* the outcomes of the requests.
C35_LoadsWithinOne ==
    (rt_cfg.strategy = "load_balanced" /\ ~ rt_cfg.enable_fallback) =>
        \A i, j \in DOMAIN rt_cfg.agents :
            TotalRequests(rt_stats, rt_cfg.agents[i].name)
              <= TotalRequests(rt_stats, rt_cfg.agents[j].name) + 1

\* A load-balanced router of two agents without fallback has served three
\* requests, the first of which failed: the loads are 2 and 1.
C35_Witness ==
    /\ rt_cfg.strategy = "load_balanced"
    /\ ~ rt_cfg.enable_fallback
    /\ Len(rt_cfg.agents) = 2
    /\ rt_pc = "returned"
    /\ rt_left = MaxCalls - 3
    /\ TotalRequests(rt_stats, RouterAgentName(1)) = 2
    /\ TotalRequests(rt_stats, RouterAgentName(2)) = 1
    /\ rt_stats[RouterAgentName(1)].failed_requests >= 1

\* ------------------------------------------------------------------ AgentRouter, overlapping calls

\* The attempts of one route call on the agent of a name that route has
\* passed to _update_stats: the primary attempt, and a fallback attempt that
\* answered.
RecordedAttempts(call, name) ==
    Cardinality({ k \in DOMAIN call.attempts :
                    /\ rt_cfg.agents[call.attempts[k].agent].name = name
                    /\ (k = 1 \/ call.attempts[k].error = Missing) })

RECURSIVE RecordedAcrossCalls(_, _)
RecordedAcrossCalls(name, c) ==
    IF c = 0 THEN 0
    ELSE RecordedAttempts(ov_calls[c], name) + RecordedAcrossCalls(name, c - 1)

\* C33: while route calls overlap on one router no statistics update is
\* lost: for every agent, total_requests is the number of attempts on it
\* recorded so far across all the calls, and it is successful_requests +
\* failed_requests.
C33_NoLostUpdate ==
    \A i \in DOMAIN rt_cfg.agents :
        LET name == rt_cfg.agents[i].name IN
        /\ TotalRequests(rt_stats, name) = RecordedAcrossCalls(name, Len(ov_calls))
        /\ name \in DOMAIN rt_stats =>
             rt_stats[name].total_requests =
               rt_stats[name].successful_requests + rt_stats[name].failed_requests

\* Two calls were suspended at their requests to the same agent at the same
\* time (the second was made with the stats the first had seen), and both
\* have been recorded.
C33_Witness ==
    /\ Len(ov_calls) >= 2
    /\ ov_calls[1].pc = "returned"
    /\ ov_calls[2].pc = "returned"
    /\ ov_calls[1].selected = ov_calls[2].selected
    /\ ov_calls[2].base = ov_calls[1].base
    /\ ov_calls[1].selected # NoAgent
    /\ TotalRequests(rt_stats, rt_cfg.agents[ov_calls[1].selected].name) >= 2

====
